---- MODULE Spec2Model ----
(***************************************************************************)
(* Image Vault: the scanning and incremental-sync engine (scanner.py), the *)
(* catalog it writes (models.py, database.py) and the route handlers that  *)
(* write the same catalog (routes.py).                                     *)
(*                                                                         *)
(* A path is a sequence of segment names.  A name is a string; Chars gives *)
(* the characters of every name that occurs in the model, so that the     *)
(* string operations of the code (lower, replace, strip, title) are        *)
(* computed character by character.                                        *)
(***************************************************************************)
EXTENDS Integers, Sequences, FiniteSets, Bags, TLC

(***************************************************************************)
(* Bounds of the model.                                                    *)
(***************************************************************************)
MaxScans == 3      \* scan() invocations in one behaviour
MaxFsOps == 1      \* changes made to the filesystem between scans
MaxUserOps == 2    \* tag route handlers called in one behaviour
MaxReentryOps == 2 \* times a file vanishes or re-appears
MaxWorkerScans == 2 \* scan() invocations of the concurrent callers
MaxTreeFiles == 3  \* paths present in the larger tree
MaxTreeScans == 2  \* scan() invocations over the larger tree
MaxManageScans == 2 \* scan() invocations between the deleting handlers
MaxTagOps == 2     \* tag handlers called while a scan runs
MaxServeOps == 3   \* handler calls in a behaviour that serves files
MaxRouteScans == 2 \* scan_route requests in one behaviour

(***************************************************************************)
(* Text.                                                                   *)
(***************************************************************************)
Chars(name) ==
  CASE name = "vault"  -> <<"v","a","u","l","t">>
    [] name = "a_b"    -> <<"a","_","b">>
    [] name = "a-b"    -> <<"a","-","b">>
    [] name = "sfw"    -> <<"s","f","w">>
    [] name = "x.jpg"  -> <<"x",".","j","p","g">>
    [] name = "y.JPG"  -> <<"y",".","J","P","G">>
    [] name = "nodir"  -> <<"n","o","d","i","r">>
    [] name = "A B"    -> <<"A"," ","B">>
    [] name = " A B "  -> <<" ","A"," ","B"," ">>
    [] name = "New"    -> <<"N","e","w">>
    [] name = "thumbs" -> <<"t","h","u","m","b","s">>
    [] name = "cache"  -> <<"c","a","c","h","e">>
    [] name = "__pycache__" -> <<"_","_","p","y","c","a","c","h","e","_","_">>
    [] name = "vault2" -> <<"v","a","u","l","t","2">>
    [] name = "q"      -> <<"q">>
    [] name = "t.png"  -> <<"t",".","p","n","g">>
    [] name = "c.png"  -> <<"c",".","p","n","g">>
    [] name = "p.png"  -> <<"p",".","p","n","g">>
    [] name = "z.jpg"  -> <<"z",".","j","p","g">>
    [] name = "k.jpeg" -> <<"k",".","j","p","e","g">>
    [] name = "l.jpg"  -> <<"l",".","j","p","g">>
    [] name = "w.webp" -> <<"w",".","w","e","b","p">>
    [] name = "notes.txt" -> <<"n","o","t","e","s",".","t","x","t">>
    [] name = "SFW"    -> <<"S","F","W">>
    [] name = "Pycache" -> <<"P","y","c","a","c","h","e">>
    [] name = " "      -> <<" ">>
    [] name = "vlink"  -> <<"v","l","i","n","k">>
    [] name = "jpg"    -> <<"j","p","g">>
    [] name = "1"      -> <<"1">>
    [] name = "x"      -> <<"x">>
    [] OTHER           -> <<>>

Letters == <<"a","b","c","d","e","f","g","h","i","j","k","l","m","n","o","p","q","r","s","t",
             "u","v","w","x","y","z">>
Capitals == <<"A","B","C","D","E","F","G","H","I","J","K","L","M","N","O","P","Q","R","S","T",
              "U","V","W","X","Y","Z">>

IndexIn(c, seq) ==
  IF \E i \in 1..Len(seq) : seq[i] = c
    THEN CHOOSE i \in 1..Len(seq) : seq[i] = c
    ELSE 0

IsCased(c) == IndexIn(c, Letters) > 0 \/ IndexIn(c, Capitals) > 0
Upper(c) == IF IndexIn(c, Letters) > 0 THEN Capitals[IndexIn(c, Letters)] ELSE c
Lower(c) == IF IndexIn(c, Capitals) > 0 THEN Letters[IndexIn(c, Capitals)] ELSE c

\* str.lower()
LowerStr(cs) == [i \in 1..Len(cs) |-> Lower(cs[i])]

\* str.title(): a cased character is upper-cased after an uncased one (or at
\* the start) and lower-cased after a cased one.
Title(cs) ==
  [i \in 1..Len(cs) |->
     IF ~IsCased(cs[i]) THEN cs[i]
     ELSE IF i = 1 \/ ~IsCased(cs[i-1]) THEN Upper(cs[i]) ELSE Lower(cs[i])]

StartsWith(cs, old) == Len(old) <= Len(cs) /\ SubSeq(cs, 1, Len(old)) = old

\* str.replace(old, new), old not empty: left to right, not overlapping.
RECURSIVE Replace(_, _, _)
Replace(cs, old, new) ==
  IF cs = <<>> THEN <<>>
  ELSE IF StartsWith(cs, old)
    THEN new \o Replace(SubSeq(cs, Len(old) + 1, Len(cs)), old, new)
    ELSE <<Head(cs)>> \o Replace(Tail(cs), old, new)

\* str.strip()
RECURSIVE LStrip(_)
LStrip(cs) == IF cs # <<>> /\ Head(cs) = " " THEN LStrip(Tail(cs)) ELSE cs
RECURSIVE RStrip(_)
RStrip(cs) ==
  IF cs # <<>> /\ cs[Len(cs)] = " " THEN RStrip(SubSeq(cs, 1, Len(cs) - 1)) ELSE cs
Strip(cs) == RStrip(LStrip(cs))

\* The string of a character sequence.
RECURSIVE Join(_)
Join(cs) == IF cs = <<>> THEN "" ELSE Head(cs) \o Join(Tail(cs))

\* Path.suffix: from the last dot of the final component, "" when there is
\* none or when the only dot leads the name.
LastDot(cs) ==
  IF \E i \in 2..Len(cs) : cs[i] = "."
    THEN CHOOSE i \in 2..Len(cs) : cs[i] = "." /\ \A j \in (i+1)..Len(cs) : cs[j] # "."
    ELSE 0
Suffix(name) ==
  LET cs == Chars(name) d == LastDot(cs)
  IN IF d = 0 THEN <<>> ELSE SubSeq(cs, d, Len(cs))

(***************************************************************************)
(* scanner.py: configuration.                                              *)
(***************************************************************************)
ALLOWED_EXTS == {".jpg", ".jpeg", ".png", ".webp"}
DEFAULT_THUMB_DIRNAME == ".vault_thumbs"

(***************************************************************************)
(* The filesystem.  A path is absent, a regular file (the size and         *)
(* modification time stat reports, its bytes, whether it can be opened for *)
(* reading), or a symbolic link to another path.                           *)
(***************************************************************************)
Absent == [kind |-> "absent"]
LinkTo(target) == [kind |-> "link", target |-> target]

Root == <<"vault">>
F1 == <<"vault", "a_b", "a-b", "x.jpg">>
F2 == <<"vault", "sfw", "y.JPG">>
Files == {F1, F2}

\* Roots a caller may pass to scan: the vault, a path that does not exist,
\* and the path of a regular file.
NoDir == <<"nodir">>
Roots == {Root, NoDir, F2}

FileOf(size, mtime, data, readable) ==
  [kind |-> "file", size |-> size, mtime |-> mtime, data |-> data, readable |-> readable]

\* The contents a file is written with.
Contents ==
  { FileOf(1, 1, "img1", TRUE),
    FileOf(2, 1, "img2", TRUE),
    FileOf(1, 2, "junk", TRUE) }

\* A larger tree, for the enumeration and the path classifier: files under
\* excluded and cache folders, a vault below a folder named thumbs, a file
\* that is no image, a file directly under the root, a one-letter folder,
\* and a symbolic link to F2.
InThumbs == <<"vault", "thumbs", "t.png">>
InCache == <<"vault", "cache", "c.png">>
InPycache == <<"vault", "__pycache__", "p.png">>
BelowThumbs == <<"thumbs", "vault2", "z.jpg">>
InShort == <<"vault", "q", "k.jpeg">>
Flat == <<"vault", "w.webp">>
Notes == <<"vault", "notes.txt">>
Alias == <<"vault", "a_b", "l.jpg">>
TreeFiles == {InThumbs, InCache, InPycache, BelowThumbs, InShort, Flat, Notes}
Paths == Files \cup TreeFiles \cup {Alias}

\* The vault below the folder named thumbs.
Root2 == <<"thumbs", "vault2">>
AllRoots == Roots \cup {Root2}

IsPrefix(a, b) == Len(a) <= Len(b) /\ SubSeq(b, 1, Len(a)) = a

\* Path.resolve(): the path a symbolic link leads to, the path itself
\* otherwise (mutant: the path itself, always).
Resolve_Unresolved(f, p) == p
Resolve(f, p) == IF p \in DOMAIN f /\ f[p].kind = "link" THEN f[p].target ELSE p

\* The forms a caller may name the vault in: the canonical path, a path
\* relative to the working directory / (written with a leading "."), a
\* path with a ".." segment, and the symbolic link /vlink to /vault.
VaultLink == <<"vlink">>
Relative == <<".", "vault">>
DotDot == <<"vault", "sfw", "..">>
RootForms == {Root, Relative, DotDot, VaultLink}

\* A folder of the vault, and a file that lies outside the vault.
SubRoot == <<"vault", "sfw">>
Outside == <<"thumbs", "vault2", "z.jpg">>

\* Path.resolve() of a directory path, segment by segment: the path is made
\* absolute, ".." takes the segment before it away, the symbolic link is
\* followed.
RECURSIVE Normalized(_, _)
Normalized(done, rest) ==
  IF rest = <<>> THEN done
  ELSE IF Head(rest) = "." THEN Normalized(done, Tail(rest))
  ELSE IF Head(rest) = ".."
    THEN Normalized(SubSeq(done, 1, Len(done) - 1), Tail(rest))
  ELSE IF Append(done, Head(rest)) = VaultLink THEN Normalized(Root, Tail(rest))
  ELSE Normalized(Append(done, Head(rest)), Tail(rest))

\* Mutant of scanner.py line 104: the root is used as given.
ResolveRoot_AsGiven(root) == root

\* scanner.py line 104: root_dir.resolve()
ResolveRoot(root) == Normalized(<<>>, root)

\* What stat() and open() reach: symbolic links are followed.
Target(f, p) == IF p \in DOMAIN f /\ f[p].kind = "link" THEN f[p].target ELSE p

\* Path.exists, Path.is_dir, Path.is_file (symbolic links are followed)
IsFile(f, p) ==
  /\ p \in DOMAIN f
  /\ \/ f[p].kind = "file"
     \/ f[p].kind = "link" /\ f[p].target \in DOMAIN f /\ f[f[p].target].kind = "file"
IsDir(f, p) == p = Root \/ \E q \in DOMAIN f : f[q].kind # "absent" /\ IsPrefix(p, q) /\ p # q
Exists(f, p) == IsFile(f, p) \/ IsDir(f, p)


(***************************************************************************)
(* scanner.py: enumeration, fingerprint, path classifier.                  *)
(***************************************************************************)
SegmentsOf(p) == {p[i] : i \in 1..Len(p)}

EnumExcluded ==
  {DEFAULT_THUMB_DIRNAME, ".vault_thumbs", "thumbs", ".git", ".DS_Store", "__pycache__"}

\* Line 24: the paths whose suffix, lower-cased, is an allowed one.
ImagePaths == {p \in Paths : Join(LowerStr(Suffix(p[Len(p)]))) \in ALLOWED_EXTS}

\* iter_image_files(root): the regular files below root with an allowed
\* suffix, none of whose parts (of the whole path) is an excluded name.
iter_image_files(f, root) ==
  { p \in DOMAIN f :
      /\ IsPrefix(root, p) /\ p # root
      /\ IsFile(f, p)
      /\ p \in ImagePaths
      /\ SegmentsOf(p) \cap EnumExcluded = {} }

\* md5sum(path): the digest of the bytes; opening an unreadable file raises.
Digest(data) ==
  CASE data = "img1" -> "md5-1"
    [] data = "img2" -> "md5-2"
    [] OTHER         -> "md5-3"
md5sum(file) == IF file.readable THEN Digest(file.data) ELSE "raise"

\* read_image_meta(path): (width, height); NoDims stands for the exception
\* raised when the file cannot be opened or decoded.
NoDims == <<-1, -1>>
read_image_meta(file) ==
  CASE ~file.readable     -> NoDims
    [] file.data = "img1" -> <<4, 3>>
    [] file.data = "img2" -> <<8, 6>>
    [] OTHER              -> NoDims

ClassifierExcluded == {".vault_thumbs", "thumbs", "cache", ".git", ".DS_Store"}

\* Mutant of line 65: hyphens are kept.
CleanChars_KeepHyphen(folder) ==
  LET clean == Strip(Replace(Chars(folder), <<"_">>, <<" ">>))
  IN IF Len(clean) > 1 THEN Title(clean) ELSE <<>>

\* Lines 65-71: the characters of the cleaned name of one folder, none when
\* it is dropped.
CleanChars(folder) ==
  LET clean == Strip(Replace(Replace(Chars(folder), <<"_">>, <<" ">>), <<"-">>, <<" ">>))
      t0 == Title(clean)
      t1 == Replace(t0, <<"N","s","f","w">>, <<"N","S","F","W">>)
      t2 == Replace(t1, <<"S","f","w">>, <<"S","F","W">>)
      t3 == Replace(t2, <<"I","2","V">>, <<"i","2","v">>)
      t4 == Replace(t3, <<"I","2","v">>, <<"i","2","v">>)
  IN IF Len(clean) > 1 THEN t4 ELSE <<>>

CleanName(folder) == Join(CleanChars(folder))

RECURSIVE TagsOfFolders(_)
TagsOfFolders(folders) ==
  IF folders = <<>> THEN <<>>
  ELSE LET folder == Head(folders)
           rest == TagsOfFolders(Tail(folders))
       IN IF folder # "" /\ folder \notin ClassifierExcluded /\ CleanName(folder) # ""
            THEN <<CleanName(folder)>> \o rest
            ELSE rest

\* Mutant of lines 53 and 75-77: the folders of the whole path are taken
\* when the path is not below root_dir.
extract_tags_from_path_Hard(image_path, root_dir) ==
  IF ~IsPrefix(root_dir, image_path) \/ image_path = root_dir
    THEN TagsOfFolders(SubSeq(image_path, 1, Len(image_path) - 1))
  ELSE TagsOfFolders(SubSeq(image_path, Len(root_dir) + 1, Len(image_path) - 1))

\* extract_tags_from_path(image_path, root_dir): relative_to raises
\* ValueError for a path not below root_dir, which yields [].
extract_tags_from_path(image_path, root_dir) ==
  IF ~IsPrefix(root_dir, image_path) \/ image_path = root_dir THEN <<>>
  ELSE TagsOfFolders(SubSeq(image_path, Len(root_dir) + 1, Len(image_path) - 1))

(***************************************************************************)
(* models.py: the catalog.  images and tags are sets of rows; links is the *)
(* bag of (image_id, tag_id) rows of the link table.                       *)
(***************************************************************************)
None == "None"

MaxOf(S) == CHOOSE m \in S : \A x \in S : x <= m

\* SQLite's INTEGER PRIMARY KEY (no AUTOINCREMENT): one more than the
\* largest id in use, 1 for an empty table.
NextId(rows) == IF rows = {} THEN 1 ELSE MaxOf({r.id : r \in rows}) + 1

Link(image_id, tag_id) == [image_id |-> image_id, tag_id |-> tag_id]

\* app.py seed_default_tags on a fresh catalog: the workflow tags, in order.
WorkflowTags ==
  << <<"Needs Inpainting", "#ffb703">>, <<"Ready For i2v", "#06d6a0">>,
     <<"Ready for Upscale", "#8ecae6">>, <<"SFW", "#4ade80">>,
     <<"NSFW", "#f87171">>, <<"Posted", "#4ade80">>, <<"i2v done", "#06d6a0">> >>

SeededTags ==
  { [id |-> i, name |-> WorkflowTags[i][1], color |-> WorkflowTags[i][2],
     description |-> None] :
      i \in 1..Len(WorkflowTags) }

\* init_db() then seed_default_tags().
EmptyCatalog == [images |-> {}, tags |-> SeededTags, links |-> EmptyBag]

\* select(Image).where(Image.path == apath).first()
ImagesAt(cat, path) == {r \in cat.images : r.path = path}
HasImage(cat, path) == ImagesAt(cat, path) # {}
ImageAt(cat, path) ==
  CHOOSE r \in ImagesAt(cat, path) : \A q \in ImagesAt(cat, path) : r.id <= q.id

\* select(Tag).where(Tag.name == tag_name).first()
TagsNamed(cat, name) == {t \in cat.tags : t.name = name}
TagNamed(cat, name) ==
  CHOOSE t \in TagsNamed(cat, name) : \A q \in TagsNamed(cat, name) : t.id <= q.id

\* session.get(ImageTagLink, (image_id, tag_id))
LinkExists(cat, image_id, tag_id) == BagIn(Link(image_id, tag_id), cat.links)


(***************************************************************************)
(* scanner.py: scan(), one file at a time.                                 *)
(***************************************************************************)
\* Mutants of line 152: the test always true; mtime compared with the
\* file's size; the size left out of the test.
NeedsRecompute_Always(row, file) == TRUE
NeedsRecompute_Typo(row, file) == row.size # file.size \/ row.mtime # file.size
NeedsRecompute_MtimeOnly(row, file) == row.mtime # file.mtime

\* Line 152: metadata is recomputed only when size or mtime changed.
NeedsRecompute(row, file) == row.size # file.size \/ row.mtime # file.mtime

\* Mutant of lines 125-126 and 155-156: no fallback.
DimsOr_NoFallback(file, fallback) == read_image_meta(file)

\* Lines 123-126 and 153-156: the dimensions, with the fallback on failure.
DimsOr(file, fallback) ==
  IF read_image_meta(file) = NoDims THEN fallback ELSE read_image_meta(file)

\* Lines 127-138: the row of a file seen for the first time.
NewImage(cat, entry, path, file, now) ==
  [ id |-> NextId(cat.images), path |-> path,
    filename |-> entry[Len(entry)], dirpath |-> SubSeq(entry, 1, Len(entry) - 1),
    size |-> file.size, mtime |-> file.mtime,
    width |-> DimsOr(file, <<0, 0>>)[1], height |-> DimsOr(file, <<0, 0>>)[2],
    file_hash |-> md5sum(file), created_at |-> now, updated_at |-> now ]

\* Lines 153-162: the row of a file whose size or mtime changed.
UpdatedImage(row, file, now) ==
  [ row EXCEPT !.size = file.size, !.mtime = file.mtime,
               !.width = DimsOr(file, <<row.width, row.height>>)[1],
               !.height = DimsOr(file, <<row.width, row.height>>)[2],
               !.file_hash = md5sum(file), !.updated_at = now ]

\* Mutant of line 140: the commit made for every file, not for inserts only.
CommitsAfter_Always(fate) == fate # "raise"

\* Line 140: the session is committed right after the insert of a new row.
CommitsAfter(fate) == fate = "added"

\* Lines 116-141 and 150-165 for one enumerated file, in the session whose
\* view of the catalog is cat: entry is the enumerated path, path its
\* resolved form (apath), file what stat and open find there.  fate is the
\* branch taken ("raise" when md5sum raises), commit whether line 140
\* committed the session, hashed and metaRead whether md5sum and
\* read_image_meta were called.
VisitFile(cat, entry, path, file, now) ==
  IF ~HasImage(cat, path)
    THEN IF md5sum(file) = "raise"
           THEN [cat |-> cat, fate |-> "raise", commit |-> FALSE, id |-> 0,
                 hashed |-> TRUE, metaRead |-> TRUE]
           ELSE [cat |-> [cat EXCEPT !.images = @ \cup {NewImage(cat, entry, path, file, now)}],
                 fate |-> "added", commit |-> CommitsAfter("added"), id |-> NextId(cat.images),
                 hashed |-> TRUE, metaRead |-> TRUE]
    ELSE LET row == ImageAt(cat, path) IN
         IF NeedsRecompute(row, file)
           THEN IF md5sum(file) = "raise"
                  THEN [cat |-> cat, fate |-> "raise", commit |-> FALSE, id |-> row.id,
                        hashed |-> TRUE, metaRead |-> TRUE]
                  ELSE [cat |-> [cat EXCEPT !.images =
                                   (@ \ {row}) \cup {UpdatedImage(row, file, now)}],
                        fate |-> "updated", commit |-> CommitsAfter("updated"), id |-> row.id,
                        hashed |-> TRUE, metaRead |-> TRUE]
           ELSE [cat |-> cat, fate |-> "unchanged", commit |-> CommitsAfter("unchanged"), id |-> row.id,
                 hashed |-> FALSE, metaRead |-> FALSE]

\* get_or_create_tag(session, tag_name): the catalog with the tag in it.
WithTag(cat, tag_name) ==
  IF TagsNamed(cat, tag_name) # {} THEN cat
  ELSE [cat EXCEPT !.tags =
          @ \cup {[id |-> NextId(cat.tags), name |-> tag_name, color |-> None,
                   description |-> None]}]

\* Mutant of lines 97-98: the link is added without the lookup.
WithLink_NoLookup(cat, image_id, tag_id) ==
  [cat EXCEPT !.links = @ (+) SetToBag({Link(image_id, tag_id)})]

\* Mutant of line 99: no link is added.
WithLink_Never(cat, image_id, tag_id) == cat

\* Lines 96-99: the link is added unless session.get finds it.
WithLink(cat, image_id, tag_id) ==
  IF LinkExists(cat, image_id, tag_id) THEN cat
  ELSE [cat EXCEPT !.links = @ (+) SetToBag({Link(image_id, tag_id)})]

\* One iteration of assign_tags_to_image: created tells whether
\* get_or_create_tag committed the session (line 86), committed is the
\* catalog it committed, cat the session's view after the iteration.
AssignTag(cat, image_id, tag_name) ==
  LET withTag == WithTag(cat, tag_name) IN
  [ created |-> TagsNamed(cat, tag_name) = {},
    committed |-> withTag,
    cat |-> WithLink(withTag, image_id, TagNamed(withTag, tag_name).id) ]

\* Mutant of line 175: the test inverted.
Cleanup_Inverted(cat, seen_paths) ==
  [cat EXCEPT !.images = {r \in @ : r.path \notin seen_paths}]

\* Lines 172-176: every row whose path was not seen is deleted.
Cleanup(cat, seen_paths) ==
  [cat EXCEPT !.images = {r \in @ : r.path \in seen_paths}]


\* Mutant of line 105: is_dir() not tested.
RootIsValid_ExistsOnly(f, root) == Exists(f, root)

\* extract_tags_from_path, tabulated over the paths and roots of the model.
TagTable == [p \in Paths, r \in AllRoots \cup {SubRoot} |-> extract_tags_from_path(p, r)]

\* Line 105: the root must exist and be a directory.
RootIsValid(f, root) == Exists(f, root) /\ IsDir(f, root)

\* Lines 144-146: the folder tags of a file seen for the first time.
FolderTagsNew(auto_tag, file, root_dir) ==
  IF auto_tag THEN TagTable[file, root_dir] ELSE <<>>

\* Mutant of lines 168-171: rows that exist are not tagged.
FolderTagsExisting_None(auto_tag, file, root_dir) == <<>>

\* Lines 168-170: the folder tags of a file that already has a row.
FolderTagsExisting(auto_tag, file, root_dir) ==
  IF auto_tag THEN TagTable[file, root_dir] ELSE <<>>

\* Mutant of line 172: the cleanup done whatever the option.
AfterWalk_Always(cat, cleanup, seen_paths) == Cleanup(cat, seen_paths)

\* Lines 172-183: the session after the walk.
AfterWalk(cat, cleanup, seen_paths) ==
  IF cleanup THEN Cleanup(cat, seen_paths) ELSE cat

(***************************************************************************)
(* State.                                                                  *)
(***************************************************************************)
VARIABLES
  fs,         \* the filesystem: path -> file
  thumbDirs,  \* the roots that have a .vault_thumbs directory
  db,         \* the persisted catalog
  settings,   \* the Setting table: root_dir and last_scan
  sess,       \* the scan's session: its view of the catalog, commits pending
  pc,         \* "idle", or the scan's position: "walk", "tags"
  scan,       \* the locals of the running scan, and the outcome of the last one
  route,      \* the last route handler called and how it answered
  workers,    \* the scans of the callers that run concurrently
  nScans, nFsOps, nUserOps

vars == <<fs, thumbDirs, db, settings, sess, pc, scan, route, workers, nScans, nFsOps, nUserOps>>

\* No session is open.
Closed == [images |-> {}, tags |-> {}, links |-> EmptyBag]

\* The Setting table without rows: get_setting gives None for root_dir (the
\* empty path here) and for last_scan (0 here; a recorded scan is 1 or more).
NoRoot == <<>>
NoSettings == [root_dir |-> NoRoot, last_scan |-> 0]

\* scan.status: "none" (nothing to report), "running", or how the last scan
\* ended: "ok", "invalid_root" (HTTPException 400), "error" (an exception
\* of the walk), "interrupted" (the process was stopped).
\* pre, preSettings, prevOk, prevN, prevCat, base and interrupts record the
\* history the properties speak about; hashCalls and metaCalls the files
\* md5sum and read_image_meta were called for.
NoScan ==
  [ status |-> "none", via |-> "scan", root |-> Root, cleanup |-> FALSE, auto_tag |-> FALSE,
    todo |-> {}, seen_paths |-> {}, added |-> 0, updated |-> 0, unchanged |-> 0,
    img |-> 0, tagq |-> <<>>, isNew |-> FALSE,
    hashCalls |-> {}, metaCalls |-> {},
    pre |-> Closed, preSettings |-> NoSettings,
    prevOk |-> FALSE, prevN |-> 0, prevCat |-> Closed,
    base |-> Closed, interrupts |-> 0 ]

\* args: the arguments of a call of the path classifier.
\* met: the handler found an association it was asked to add.
NoRoute == [name |-> "none", args |-> <<>>, answer |-> 0, met |-> FALSE]

\* The callers that may run scan() at the same time (the request threads).
Workers == 1..2

\* The scan of one concurrent caller.  pc is its position: "idle", "walk"
\* (line 115), "visit" (after the lookup of lines 119-121), "tagfind" (line
\* 82), "taglink" (lines 83-99), "cleanup" (after the select of line 173),
\* "done", "error".  row is the Image the lookup loaded (when found); rows and links are what the session has not committed; tag is the
\* Tag the lookup of line 82 found (0 when it found none); doomed are the
\* rows line 176 deletes; raced are the paths whose insert hit the unique
\* constraint.
IdleWorker ==
  [ pc |-> "idle", cleanup |-> FALSE, auto_tag |-> FALSE,
    todo |-> {}, seen_paths |-> {}, added |-> 0, updated |-> 0, unchanged |-> 0,
    entry |-> <<>>, apath |-> <<>>, found |-> FALSE, row |-> [id |-> 0],
    img |-> 0, tagq |-> <<>>, tag |-> 0, isNew |-> FALSE,
    rows |-> {}, links |-> {}, doomed |-> {}, raced |-> {} ]

SameCall(via, root, cleanup, auto_tag) ==
  scan.via = via /\ scan.root = root /\ scan.cleanup = cleanup /\ scan.auto_tag = auto_tag

Init ==
  /\ fs \in [Files -> {Absent, FileOf(1, 1, "img1", TRUE)}]
  /\ thumbDirs = {}
  /\ db = EmptyCatalog
  /\ settings = NoSettings
  /\ sess = Closed
  /\ pc = "idle"
  /\ scan = NoScan
  /\ route = NoRoute
  /\ workers = [i \in Workers |-> IdleWorker]
  /\ nScans = 0 /\ nFsOps = 0 /\ nUserOps = 0

(***************************************************************************)
(* The filesystem changes while no scan runs.                              *)
(***************************************************************************)
FsChangeWithin(f, max) ==
  /\ pc = "idle" /\ nFsOps < max
  /\ fs' = f
  /\ nFsOps' = nFsOps + 1
  /\ scan' = NoScan
  /\ route' = NoRoute
  /\ UNCHANGED <<thumbDirs, db, settings, sess, pc, workers, nScans, nUserOps>>

FsChange(f) == FsChangeWithin(f, MaxFsOps)

WriteFile(p, c) == fs[p] # c /\ FsChange([fs EXCEPT ![p] = c])
DeleteFile(p) == fs[p] # Absent /\ FsChange([fs EXCEPT ![p] = Absent])
\* The permission bits change; size and mtime do not.
Chmod(p) == fs[p] # Absent /\ FsChange([fs EXCEPT ![p].readable = ~@])

(***************************************************************************)
(* scan(root_dir, cleanup, auto_tag), called directly or by scan_route.    *)
(***************************************************************************)
\* Lines 104-112, and the session opened at line 114.
Enter(via, root, cleanup, auto_tag, cat, sett) ==
  LET root_dir == ResolveRoot(root)
      resumed == scan.status = "interrupted" /\ SameCall(via, root_dir, cleanup, auto_tag)
      again == scan.status = "ok" /\ SameCall(via, root_dir, cleanup, auto_tag)
      rec == [ NoScan EXCEPT
                 !.via = via, !.root = root_dir, !.cleanup = cleanup, !.auto_tag = auto_tag,
                 !.pre = cat, !.preSettings = settings,
                 !.prevOk = again,
                 !.prevN = IF again THEN Cardinality(scan.seen_paths) ELSE 0,
                 !.prevCat = IF again THEN cat ELSE Closed,
                 !.base = IF resumed THEN scan.base ELSE cat,
                 !.interrupts = IF resumed THEN scan.interrupts ELSE 0 ]
  IN
  /\ nScans' = nScans + 1
  /\ route' = NoRoute
  /\ db' = cat
  /\ settings' = sett
  /\ IF ~RootIsValid(fs, root_dir)
       THEN /\ scan' = [rec EXCEPT !.status = "invalid_root"]
            /\ UNCHANGED <<thumbDirs, sess, pc>>
       ELSE /\ thumbDirs' = thumbDirs \cup {root_dir}
            /\ sess' = cat
            /\ pc' = "walk"
            /\ scan' = [rec EXCEPT !.status = "running",
                                   !.todo = iter_image_files(fs, root_dir)]
  /\ UNCHANGED <<fs, workers, nFsOps, nUserOps>>

ScanCall(root, cleanup, auto_tag) ==
  /\ pc = "idle" /\ nScans < MaxScans
  /\ Enter("scan", root, cleanup, auto_tag, db, settings)

\* routes.py scan_route: the optional reset, set_setting("root_dir"), scan.
scan_route(root, cleanup, auto_tag, reset_db) ==
  /\ pc = "idle" /\ nScans < MaxScans
  /\ Enter("scan_route", root, cleanup, auto_tag,
           IF reset_db THEN EmptyCatalog ELSE db,
           [(IF reset_db THEN NoSettings ELSE settings) EXCEPT !.root_dir = root])

\* An exception leaves scan(): the session closes and rolls back.
Raised == [NoScan EXCEPT !.status = "error", !.via = scan.via, !.root = scan.root,
                         !.cleanup = scan.cleanup, !.auto_tag = scan.auto_tag,
                         !.pre = scan.pre, !.preSettings = scan.preSettings,
                         !.hashCalls = scan.hashCalls, !.metaCalls = scan.metaCalls]

\* Lines 115-171 for the next file of the enumeration, up to its tags.
ScanVisit(file) ==
  /\ pc = "walk" /\ file \in scan.todo
  /\ LET apath == Resolve(fs, file)
         r == VisitFile(sess, file, apath, fs[Target(fs, file)], nScans)
         folder_tags == IF r.fate = "added"
                          THEN FolderTagsNew(scan.auto_tag, file, scan.root)
                          ELSE FolderTagsExisting(scan.auto_tag, file, scan.root)
         visited == [scan EXCEPT
                       !.todo = @ \ {file},
                       !.seen_paths = @ \cup {apath},
                       !.hashCalls = IF r.hashed THEN @ \cup {apath} ELSE @,
                       !.metaCalls = IF r.metaRead THEN @ \cup {apath} ELSE @]
     IN IF r.fate = "raise"
          THEN /\ scan' = [Raised EXCEPT !.hashCalls = visited.hashCalls,
                                         !.metaCalls = visited.metaCalls]
               /\ sess' = Closed
               /\ pc' = "idle"
               /\ UNCHANGED db
          ELSE /\ sess' = r.cat
               /\ db' = IF r.commit THEN r.cat ELSE db
               /\ IF folder_tags # <<>>
                    THEN /\ pc' = "tags"
                         /\ scan' = [visited EXCEPT
                                       !.img = r.id, !.tagq = folder_tags,
                                       !.isNew = (r.fate = "added"),
                                       !.updated = IF r.fate = "updated" THEN @ + 1 ELSE @,
                                       !.unchanged = IF r.fate = "unchanged" THEN @ + 1 ELSE @]
                    ELSE /\ pc' = "walk"
                         /\ scan' = [visited EXCEPT
                                       !.added = IF r.fate = "added" THEN @ + 1 ELSE @,
                                       !.updated = IF r.fate = "updated" THEN @ + 1 ELSE @,
                                       !.unchanged = IF r.fate = "unchanged" THEN @ + 1 ELSE @]
  /\ UNCHANGED <<fs, thumbDirs, settings, route, workers, nScans, nFsOps, nUserOps>>

\* One iteration of assign_tags_to_image (lines 93-99); after the last one
\* of a new file, added += 1 (line 149).
ScanTag ==
  /\ pc = "tags"
  /\ LET r == AssignTag(sess, scan.img, Head(scan.tagq))
         last == Len(scan.tagq) = 1
     IN /\ sess' = r.cat
        /\ db' = IF r.created THEN r.committed ELSE db
        /\ pc' = IF last THEN "walk" ELSE "tags"
        /\ scan' = [scan EXCEPT
                      !.tagq = Tail(@),
                      !.img = IF last THEN 0 ELSE @,
                      !.isNew = IF last THEN FALSE ELSE @,
                      !.added = IF last /\ scan.isNew THEN @ + 1 ELSE @]
  /\ UNCHANGED <<fs, thumbDirs, settings, route, workers, nScans, nFsOps, nUserOps>>

\* Lines 172-185: the cleanup, the last commit and the return; scan_route
\* then records last_scan.
ScanFinish ==
  /\ pc = "walk" /\ scan.todo = {}
  /\ db' = AfterWalk(sess, scan.cleanup, scan.seen_paths)
  /\ sess' = Closed
  /\ pc' = "idle"
  /\ scan' = [scan EXCEPT !.status = "ok"]
  /\ settings' = IF scan.via = "scan_route"
                   THEN [settings EXCEPT !.last_scan = nScans] ELSE settings
  /\ UNCHANGED <<fs, thumbDirs, route, workers, nScans, nFsOps, nUserOps>>

\* The process is stopped during the walk: what the session has not
\* committed is lost.
Interrupt ==
  /\ pc \in {"walk", "tags"}
  /\ sess' = Closed
  /\ pc' = "idle"
  /\ scan' = [NoScan EXCEPT !.status = "interrupted", !.via = scan.via, !.root = scan.root,
                            !.cleanup = scan.cleanup, !.auto_tag = scan.auto_tag,
                            !.pre = scan.pre, !.preSettings = scan.preSettings,
                            !.base = scan.base, !.interrupts = scan.interrupts + 1]
  /\ UNCHANGED <<fs, thumbDirs, db, settings, route, workers, nScans, nFsOps, nUserOps>>

(***************************************************************************)
(* routes.py: the handlers that write associations.  A handler runs in one *)
(* session, while no scan runs.  An absent form field is "" (a name) or 0  *)
(* (an id); both are false for the handler's tests.                        *)
(***************************************************************************)
\* session.delete(link): the row with that primary key is deleted.
WithoutLink(cat, image_id, tag_id) ==
  [cat EXCEPT !.links =
     [l \in DOMAIN @ \ {Link(image_id, tag_id)} |-> @[l]]]

\* name.strip()
Stripped(name) == Join(Strip(Chars(name)))

\* Mutant of routes.py 335-336, 475-476 and 145-147: no lookup before the
\* insert (and no unique index to refuse it).
WithTagNamed_NoLookup(cat, name) ==
  [cat EXCEPT !.tags = @ \cup {[id |-> NextId(cat.tags), name |-> name, color |-> None,
                                description |-> None]}]

\* routes.py 335-340 and 475-480: the tag of that name, created if absent.
WithTagNamed(cat, name) ==
  IF TagsNamed(cat, name) # {} THEN cat
  ELSE [cat EXCEPT !.tags = @ \cup {[id |-> NextId(cat.tags), name |-> name, color |-> None,
                                      description |-> None]}]

\* routes.py 343-346: the link is added unless session.get finds it.
WithLinkAssigned(cat, image_id, tag_id) ==
  IF LinkExists(cat, image_id, tag_id) THEN cat
  ELSE [cat EXCEPT !.links = @ (+) SetToBag({Link(image_id, tag_id)})]

\* routes.py 483-487: the tag is linked to every image id of the list.
RECURSIVE WithLinksAdded(_, _, _)
WithLinksAdded(cat, image_ids, tag_id) ==
  IF image_ids = <<>> THEN cat
  ELSE WithLinksAdded(
         IF LinkExists(cat, Head(image_ids), tag_id) THEN cat
         ELSE [cat EXCEPT !.links = @ (+) SetToBag({Link(Head(image_ids), tag_id)})],
         Tail(image_ids), tag_id)

\* routes.py 502-505
RECURSIVE WithLinksRemoved(_, _, _)
WithLinksRemoved(cat, image_ids, tag_id) ==
  IF image_ids = <<>> THEN cat
  ELSE WithLinksRemoved(
         IF LinkExists(cat, Head(image_ids), tag_id)
           THEN WithoutLink(cat, Head(image_ids), tag_id) ELSE cat,
         Tail(image_ids), tag_id)

Handled(name, answer, met, cat) ==
  /\ pc = "idle" /\ nUserOps < MaxUserOps
  /\ nUserOps' = nUserOps + 1
  /\ route' = [NoRoute EXCEPT !.name = name, !.answer = answer, !.met = met]
  /\ db' = cat
  /\ scan' = NoScan
  /\ UNCHANGED <<fs, thumbDirs, settings, sess, pc, workers, nScans, nFsOps>>

\* assign_tag(image_id, name, tag_id)
assign_tag(image_id, name, tag_id) ==
  IF \A r \in db.images : r.id # image_id
    THEN Handled("assign_tag", 404, FALSE, db)
  ELSE IF tag_id # 0
    THEN IF \A t \in db.tags : t.id # tag_id
           THEN Handled("assign_tag", 400, FALSE, db)
           ELSE Handled("assign_tag", 303, LinkExists(db, image_id, tag_id),
                        WithLinkAssigned(db, image_id, tag_id))
  ELSE IF name # ""
    THEN LET withTag == WithTagNamed(db, Stripped(name))
             tag == TagNamed(withTag, Stripped(name))
         IN Handled("assign_tag", 303, LinkExists(withTag, image_id, tag.id),
                    WithLinkAssigned(withTag, image_id, tag.id))
  ELSE Handled("assign_tag", 400, FALSE, db)

\* remove_tag(image_id, tag_id)
remove_tag(image_id, tag_id) ==
  Handled("remove_tag", 303, FALSE,
          IF LinkExists(db, image_id, tag_id) THEN WithoutLink(db, image_id, tag_id) ELSE db)

\* bulk_add_tag(image_ids, tag_name)
bulk_add_tag(image_ids, tag_name) ==
  LET withTag == WithTagNamed(db, Stripped(tag_name))
      tag == TagNamed(withTag, Stripped(tag_name))
  IN Handled("bulk_add_tag", 303,
             \/ \E i \in DOMAIN image_ids : LinkExists(db, image_ids[i], tag.id)
             \/ \E i, j \in DOMAIN image_ids : i # j /\ image_ids[i] = image_ids[j],
             WithLinksAdded(withTag, image_ids, tag.id))

\* bulk_remove_tag(image_ids, tag_id)
bulk_remove_tag(image_ids, tag_id) ==
  Handled("bulk_remove_tag", 303, FALSE, WithLinksRemoved(db, image_ids, tag_id))

Next ==
  \/ \E p \in Files, c \in Contents : WriteFile(p, c)
  \/ \E p \in Files : DeleteFile(p)
  \/ \E p \in Files : Chmod(p)
  \/ \E root \in Roots, cleanup \in BOOLEAN, auto_tag \in BOOLEAN :
       ScanCall(root, cleanup, auto_tag)
  \/ \E file \in Files : ScanVisit(file)
  \/ ScanTag
  \/ ScanFinish

Spec == Init /\ [][Next]_vars

(***************************************************************************)
(* Scans that may be interrupted.  An interrupted scan is run again, with  *)
(* the same arguments, before anything else happens.                       *)
(***************************************************************************)
Rerun ==
  /\ scan.status = "interrupted"
  /\ ScanCall(scan.root, scan.cleanup, scan.auto_tag)

NextResume ==
  \/ /\ scan.status # "interrupted"
     /\ \/ \E p \in Files, c \in Contents : WriteFile(p, c)
        \/ \E p \in Files : DeleteFile(p)
        \/ \E p \in Files : Chmod(p)
        \/ \E cleanup \in BOOLEAN, auto_tag \in BOOLEAN : ScanCall(Root, cleanup, auto_tag)
  \/ Rerun
  \/ \E file \in Files : ScanVisit(file)
  \/ ScanTag
  \/ ScanFinish
  \/ Interrupt

SpecResume == Init /\ [][NextResume]_vars

\* The arguments the handlers are called with.
ImageIds == 1..2
TagIds == {4, 8}
TagNames == {"A B", " A B ", "New"}
IdLists == {<<1>>, <<1, 1>>, <<2, 1>>}

(***************************************************************************)
(* Files that vanish and re-appear between scans of the vault, and images  *)
(* the user deletes.                                                       *)
(***************************************************************************)
Vanish(p) ==
  fs[p] # Absent /\ FsChangeWithin([fs EXCEPT ![p] = Absent], MaxReentryOps)
Reappear(p) ==
  fs[p] = Absent /\ FsChangeWithin([fs EXCEPT ![p] = FileOf(1, 1, "img1", TRUE)], MaxReentryOps)

\* Mutant of utils.py lines 9-11: no path is refused.
UnderRoot_Always(f, root, candidate) == TRUE

\* utils.py resolve_under_root(root, candidate): the resolved candidate is
\* root or has root among its parents.
UnderRoot(f, root, candidate) == IsPrefix(root, Resolve(f, candidate))

\* routes.py delete_image(image_id): the file is unlinked when root_dir is
\* set, then the links of the image and its row are deleted.
delete_image(image_id) ==
  /\ pc = "idle" /\ nUserOps < MaxUserOps
  /\ nUserOps' = nUserOps + 1
  /\ scan' = NoScan
  /\ IF \A r \in db.images : r.id # image_id
       THEN /\ route' = [NoRoute EXCEPT !.name = "delete_image", !.answer = 404]
            /\ UNCHANGED <<fs, db>>
       ELSE LET img == CHOOSE r \in db.images : r.id = image_id
                root == settings.root_dir
            IN IF root # NoRoot /\ ~UnderRoot(fs, root, img.path)
                 THEN /\ route' = [NoRoute EXCEPT !.name = "delete_image", !.answer = 400]
                      /\ UNCHANGED <<fs, db>>
                 ELSE /\ route' = [NoRoute EXCEPT !.name = "delete_image", !.answer = 303]
                      /\ fs' = IF root # NoRoot /\ Exists(fs, Resolve(fs, img.path))
                                 THEN [fs EXCEPT ![Resolve(fs, img.path)] = Absent]
                                 ELSE fs
                      /\ db' = [db EXCEPT
                                  !.images = @ \ {img},
                                  !.links = [l \in {k \in DOMAIN @ : k.image_id # image_id} |-> @[l]]]
  /\ UNCHANGED <<thumbDirs, settings, sess, pc, workers, nScans, nFsOps>>

NextReentry ==
  \/ \E p \in Files : Vanish(p)
  \/ \E p \in Files : Reappear(p)
  \/ \E cleanup \in BOOLEAN, auto_tag \in BOOLEAN : ScanCall(Root, cleanup, auto_tag)
  \/ \E file \in Files : ScanVisit(file)
  \/ ScanTag
  \/ ScanFinish
  \/ \E image_id \in ImageIds : delete_image(image_id)

SpecReentry == Init /\ [][NextReentry]_vars

(***************************************************************************)
(* Two callers run scan(Root) at the same time, each in its own session    *)
(* on the same SQLite file.  A session reads what is committed and what it *)
(* has pending itself; a commit writes what is pending, and fails when a   *)
(* constraint of the schema is hit or a pending row is gone.               *)
(***************************************************************************)
Ids(rows) == {r.id : r \in rows}

\* What the session of worker w reads.
View(cat, w) ==
  [ images |-> {r \in cat.images : r.id \notin Ids(w.rows)}
                 \cup {r \in w.rows : r.id \in Ids(cat.images)},
    tags |-> cat.tags,
    links |-> cat.links (+) SetToBag({l \in w.links : ~BagIn(l, cat.links)}) ]

\* A flush of what w has pending fails: the UPDATE of a row that is gone
\* (StaleDataError) or the INSERT of a link that exists (IntegrityError on
\* the primary key of ImageTagLink).
Conflict(cat, w) ==
  \/ \E r \in w.rows : r.id \notin Ids(cat.images)
  \/ \E l \in w.links : BagIn(l, cat.links)

\* Mutant of models.py line 27: path is not unique.
PathTaken_Never(cat, apath) == FALSE

\* models.py line 27: the unique index on Image.path refuses a second row.
PathTaken(cat, apath) == HasImage(cat, apath)

\* models.py line 19: the unique index on Tag.name.
NameTaken(cat, name) == TagsNamed(cat, name) # {}

\* The session is rolled back and closed by the exception.
Failed(w) == [w EXCEPT !.pc = "error", !.rows = {}, !.links = {}, !.doomed = {},
                       !.tagq = <<>>, !.todo = {}]

Pending(w) == w.rows # {} \/ w.links # {}

\* Lines 104-115: the root is the vault, the session opens.
CEnter(i, cleanup, auto_tag) ==
  /\ pc = "idle" /\ workers[i].pc \in {"idle", "done", "error"}
  /\ nScans < MaxWorkerScans
  /\ nScans' = nScans + 1
  /\ thumbDirs' = thumbDirs \cup {Root}
  /\ workers' = [workers EXCEPT ![i] =
        [IdleWorker EXCEPT !.pc = "walk", !.cleanup = cleanup, !.auto_tag = auto_tag,
                           !.todo = iter_image_files(fs, Root)]]
  /\ UNCHANGED <<fs, db, settings, sess, pc, scan, route, nFsOps, nUserOps>>

\* Lines 116-121: the next file, its resolved path, the lookup of its row.
CLookup(i, file) ==
  LET w == workers[i]
      apath == Resolve(fs, file)
      v == View(db, w)
  IN /\ w.pc = "walk" /\ file \in w.todo
     /\ workers' = [workers EXCEPT ![i] =
           IF Conflict(db, w) THEN Failed(w)
           ELSE [w EXCEPT !.pc = "visit", !.todo = @ \ {file},
                          !.seen_paths = @ \cup {apath},
                          !.entry = file, !.apath = apath,
                          !.found = HasImage(v, apath),
                          !.row = IF HasImage(v, apath) THEN ImageAt(v, apath) ELSE [id |-> 0]]]
     /\ UNCHANGED <<fs, thumbDirs, db, settings, sess, pc, scan, route, nScans, nFsOps, nUserOps>>

\* The worker after lines 122-171 up to the tags of the file.
Tagging(w, folder_tags, image_id, isNew) ==
  IF folder_tags # <<>>
    THEN [w EXCEPT !.pc = "tagfind", !.tagq = folder_tags, !.img = image_id, !.isNew = isNew]
    ELSE [w EXCEPT !.pc = "walk", !.added = IF isNew THEN @ + 1 ELSE @]

\* Lines 122-141: the insert and its commit; lines 150-165: the update.
CVisit(i) ==
  LET w == workers[i]
      file == fs[Target(fs, w.entry)]
  IN /\ w.pc = "visit"
     /\ IF ~w.found
          THEN IF md5sum(file) = "raise" \/ Conflict(db, w)
                 THEN /\ workers' = [workers EXCEPT ![i] = Failed(w)]
                      /\ UNCHANGED db
               ELSE IF PathTaken(db, w.apath)
                 THEN /\ workers' = [workers EXCEPT ![i] =
                                       [Failed(w) EXCEPT !.raced = @ \cup {w.apath}]]
                      /\ UNCHANGED db
                 ELSE LET v == View(db, w)
                          new == NewImage(v, w.entry, w.apath, file, nScans)
                      IN /\ db' = [v EXCEPT !.images = @ \cup {new}]
                         /\ workers' = [workers EXCEPT ![i] =
                               Tagging([w EXCEPT !.rows = {}, !.links = {}],
                                       FolderTagsNew(w.auto_tag, w.entry, Root), new.id, TRUE)]
          ELSE /\ UNCHANGED db
               /\ IF NeedsRecompute(w.row, file)
                    THEN IF md5sum(file) = "raise"
                           THEN workers' = [workers EXCEPT ![i] = Failed(w)]
                           ELSE workers' = [workers EXCEPT ![i] =
                                  Tagging([w EXCEPT !.rows = {r \in @ : r.id # w.row.id}
                                                       \cup {UpdatedImage(w.row, file, nScans)},
                                                    !.updated = @ + 1],
                                          FolderTagsExisting(w.auto_tag, w.entry, Root),
                                          w.row.id, FALSE)]
                    ELSE workers' = [workers EXCEPT ![i] =
                           Tagging([w EXCEPT !.unchanged = @ + 1],
                                   FolderTagsExisting(w.auto_tag, w.entry, Root),
                                   w.row.id, FALSE)]
     /\ UNCHANGED <<fs, thumbDirs, settings, sess, pc, scan, route, nScans, nFsOps, nUserOps>>

\* Line 82: the lookup of the tag by its name.
CTagFind(i) ==
  LET w == workers[i]
      v == View(db, w)
      tag_name == Head(w.tagq)
  IN /\ w.pc = "tagfind"
     /\ workers' = [workers EXCEPT ![i] =
           IF Conflict(db, w) THEN Failed(w)
           ELSE [w EXCEPT !.pc = "taglink",
                          !.tag = IF TagsNamed(v, tag_name) # {}
                                    THEN TagNamed(v, tag_name).id ELSE 0]]
     /\ UNCHANGED <<fs, thumbDirs, db, settings, sess, pc, scan, route, nScans, nFsOps, nUserOps>>

\* The worker after line 99, for the tag tag_id.
Linked(cat, w, tag_id) ==
  LET last == Len(w.tagq) = 1
      l == Link(w.img, tag_id)
  IN [w EXCEPT !.links = IF LinkExists(View(cat, w), w.img, tag_id) THEN @ ELSE @ \cup {l},
               !.tagq = Tail(@), !.tag = 0,
               !.pc = IF last THEN "walk" ELSE "tagfind",
               !.img = IF last THEN 0 ELSE @,
               !.isNew = IF last THEN FALSE ELSE @,
               !.added = IF last /\ w.isNew THEN @ + 1 ELSE @]

\* Lines 83-87: the tag is created and committed when the lookup found
\* none; lines 97-99: the link is added unless it exists.
CTagLink(i) ==
  LET w == workers[i]
      tag_name == Head(w.tagq)
  IN /\ w.pc = "taglink"
     /\ IF w.tag # 0
          THEN /\ UNCHANGED db
               /\ workers' = [workers EXCEPT ![i] =
                     IF Conflict(db, w) THEN Failed(w) ELSE Linked(db, w, w.tag)]
          ELSE IF Conflict(db, w) \/ NameTaken(db, tag_name)
                 THEN /\ UNCHANGED db
                      /\ workers' = [workers EXCEPT ![i] = Failed(w)]
                 ELSE LET v == View(db, w)
                          created == WithTag(v, tag_name)
                      IN /\ db' = created
                         /\ workers' = [workers EXCEPT ![i] =
                               Linked(created, [w EXCEPT !.rows = {}, !.links = {}],
                                      TagNamed(created, tag_name).id)]
     /\ UNCHANGED <<fs, thumbDirs, settings, sess, pc, scan, route, nScans, nFsOps, nUserOps>>

\* Lines 172-176: the rows whose path was not seen are marked for deletion.
CCleanup(i) ==
  LET w == workers[i]
      v == View(db, w)
  IN /\ w.pc = "walk" /\ w.todo = {}
     /\ workers' = [workers EXCEPT ![i] =
           IF w.cleanup /\ Conflict(db, w) THEN Failed(w)
           ELSE [w EXCEPT !.pc = "cleanup",
                          !.doomed = IF w.cleanup
                                       THEN {r.id : r \in {q \in v.images : q.path \notin w.seen_paths}}
                                       ELSE {}]]
     /\ UNCHANGED <<fs, thumbDirs, db, settings, sess, pc, scan, route, nScans, nFsOps, nUserOps>>

\* Line 183: the last commit; the DELETE of a row that is gone fails.
CFinish(i) ==
  LET w == workers[i]
      v == View(db, w)
  IN /\ w.pc = "cleanup"
     /\ IF Conflict(db, w) \/ w.doomed \ Ids(db.images) # {}
          THEN /\ UNCHANGED db
               /\ workers' = [workers EXCEPT ![i] = Failed(w)]
          ELSE /\ db' = [v EXCEPT !.images = {r \in @ : r.id \notin w.doomed}]
               /\ workers' = [workers EXCEPT ![i] =
                     [w EXCEPT !.pc = "done", !.rows = {}, !.links = {}, !.doomed = {}]]
     /\ UNCHANGED <<fs, thumbDirs, settings, sess, pc, scan, route, nScans, nFsOps, nUserOps>>

\* The other session keeps the database locked with what it has flushed
\* and not committed: a write of this one gives up (database is locked).
CLocked(i) ==
  /\ workers[i].pc \in {"visit", "taglink", "cleanup"}
  /\ \E j \in Workers \ {i} :
       workers[j].pc \notin {"idle", "done", "error"} /\ Pending(workers[j])
  /\ workers' = [workers EXCEPT ![i] = Failed(workers[i])]
  /\ UNCHANGED <<fs, thumbDirs, db, settings, sess, pc, scan, route, nScans, nFsOps, nUserOps>>

NextConcurrent ==
  \/ \E i \in Workers, cleanup \in BOOLEAN, auto_tag \in BOOLEAN : CEnter(i, cleanup, auto_tag)
  \/ \E i \in Workers, file \in Files : CLookup(i, file)
  \/ \E i \in Workers : CVisit(i)
  \/ \E i \in Workers : CTagFind(i)
  \/ \E i \in Workers : CTagLink(i)
  \/ \E i \in Workers : CCleanup(i)
  \/ \E i \in Workers : CFinish(i)
  \/ \E i \in Workers : CLocked(i)

SpecConcurrent == Init /\ [][NextConcurrent]_vars

(***************************************************************************)
(* Scans over the larger tree, and calls of the path classifier.           *)
(***************************************************************************)
Present(f) == {p \in DOMAIN f : f[p].kind # "absent"}

InitTree ==
  /\ fs \in { f \in [Paths -> {Absent, FileOf(1, 1, "img1", TRUE), LinkTo(F2)}] :
               /\ \A p \in Paths : (f[p].kind = "link") => p = Alias
               /\ f[Alias].kind # "file"
               /\ Cardinality(Present(f)) <= MaxTreeFiles }
  /\ thumbDirs = {}
  /\ db = EmptyCatalog
  /\ settings = NoSettings
  /\ sess = Closed
  /\ pc = "idle"
  /\ scan = NoScan
  /\ route = NoRoute
  /\ workers = [i \in Workers |-> IdleWorker]
  /\ nScans = 0 /\ nFsOps = 0 /\ nUserOps = 0

TreeScan(root, cleanup, auto_tag) ==
  /\ pc = "idle" /\ nScans < MaxTreeScans
  /\ Enter("scan", root, cleanup, auto_tag, db, settings)

\* extract_tags_from_path(image_path, root_dir), called on its own.
ClassifyCall(image_path, root_dir) ==
  /\ pc = "idle" /\ scan.status = "none" /\ route.name = "none"
  /\ route' = [NoRoute EXCEPT !.name = "extract_tags_from_path",
                              !.args = <<image_path, root_dir>>,
                              !.answer = TagTable[image_path, root_dir]]
  /\ UNCHANGED <<fs, thumbDirs, db, settings, sess, pc, scan, workers, nScans, nFsOps, nUserOps>>

NextTree ==
  \/ \E root \in AllRoots, cleanup \in BOOLEAN, auto_tag \in BOOLEAN :
       TreeScan(root, cleanup, auto_tag)
  \/ \E file \in Paths : ScanVisit(file)
  \/ ScanTag
  \/ ScanFinish
  \/ \E image_path \in Paths, root_dir \in AllRoots : ClassifyCall(image_path, root_dir)

SpecTree == InitTree /\ [][NextTree]_vars

(***************************************************************************)
(* The catalog under scans of the vault and the tag handlers.              *)
(***************************************************************************)
NextCatalog ==
  \/ \E p \in Files : DeleteFile(p)
  \/ \E cleanup \in BOOLEAN, auto_tag \in BOOLEAN : ScanCall(Root, cleanup, auto_tag)
  \/ \E file \in Files : ScanVisit(file)
  \/ ScanTag
  \/ ScanFinish
  \/ \E i \in ImageIds, name \in TagNames \cup {""}, t \in TagIds \cup {0} :
       assign_tag(i, name, t)
  \/ \E i \in ImageIds, t \in TagIds : remove_tag(i, t)
  \/ \E ids \in IdLists, name \in TagNames : bulk_add_tag(ids, name)
  \/ \E ids \in IdLists, t \in TagIds : bulk_remove_tag(ids, t)

SpecCatalog == Init /\ [][NextCatalog]_vars


(***************************************************************************)
(* What one uninterrupted scan makes of a catalog: the walk of scan() in   *)
(* the enumeration order `order`, then the cleanup and the last commit.    *)
(***************************************************************************)
RECURSIVE AssignTags(_, _, _)
AssignTags(cat, image_id, tag_names) ==
  IF tag_names = <<>> THEN cat
  ELSE AssignTags(AssignTag(cat, image_id, Head(tag_names)).cat, image_id, Tail(tag_names))

\* [ok |-> FALSE] when md5sum raises for a file of the walk.
RECURSIVE Walk(_, _, _, _, _)
Walk(cat, order, f, root, auto_tag) ==
  IF order = <<>> THEN [ok |-> TRUE, cat |-> cat]
  ELSE LET file == Head(order)
           r == VisitFile(cat, file, Resolve(f, file), f[Target(f, file)], 0)
           folder_tags == IF r.fate = "added" THEN FolderTagsNew(auto_tag, file, root)
                          ELSE FolderTagsExisting(auto_tag, file, root)
       IN IF r.fate = "raise" THEN [ok |-> FALSE, cat |-> cat]
          ELSE Walk(AssignTags(r.cat, r.id, folder_tags), Tail(order), f, root, auto_tag)

Orders(S) == {o \in [1..Cardinality(S) -> S] : \A i, j \in DOMAIN o : o[i] = o[j] => i = j}

\* The catalogs an uninterrupted scan can end with, one per enumeration
\* order that does not raise.
ScanResults(cat, f, root, cleanup, auto_tag) ==
  { AfterWalk(Walk(cat, o, f, root, auto_tag).cat, cleanup,
              {Resolve(f, p) : p \in iter_image_files(f, root)}) :
      o \in {q \in Orders(iter_image_files(f, root)) : Walk(cat, q, f, root, auto_tag).ok} }

\* A catalog as the user sees it: Image rows by path, Tags by name,
\* associations by image path and tag name.
Canon(cat) ==
  [ images |-> { [path |-> r.path, size |-> r.size, mtime |-> r.mtime, width |-> r.width,
                  height |-> r.height, file_hash |-> r.file_hash] : r \in cat.images },
    tags |-> {t.name : t \in cat.tags},
    links |-> { <<r.path, t.name>> : <<r, t>> \in
                  { x \in cat.images \X cat.tags : LinkExists(cat, x[1].id, x[2].id) } } ]

StatDiffers(row, file) == ~(row.size = file.size /\ row.mtime = file.mtime)

(***************************************************************************)
(* Properties of scan().                                                   *)
(***************************************************************************)
\* C1. Scan idempotence: when scan(root, cleanup=false, auto_tag=true) has
\* completed and runs again with nothing changed in between, the second
\* run returns added = 0, updated = 0, unchanged = N, N the number of files
\* the first run saw, and leaves Image rows, Tags and associations as the
\* first run left them.
C1_ScanIdempotent ==
  (scan.status = "ok" /\ scan.prevOk /\ ~scan.cleanup /\ scan.auto_tag) =>
     /\ scan.added = 0 /\ scan.updated = 0 /\ scan.unchanged = scan.prevN
     /\ db = scan.prevCat

C1_Witness ==
  /\ scan.status = "ok" /\ scan.prevOk /\ ~scan.cleanup /\ scan.auto_tag
  /\ scan.prevN = 2 /\ db.links # EmptyBag

\* C2. No recompute: for a file whose row stores the size and mtime the OS
\* reports, scan calls neither md5sum nor read_image_meta and leaves every
\* field of the row, updated_at included, as it was.
C2_NoRecompute ==
  scan.status \in {"running", "ok"} =>
    \A p \in scan.seen_paths :
      (HasImage(scan.pre, p) /\ ~StatDiffers(ImageAt(scan.pre, p), fs[p])) =>
         /\ p \notin scan.hashCalls /\ p \notin scan.metaCalls
         /\ ImageAt(scan.pre, p) \in (IF scan.status = "ok" THEN db ELSE sess).images

C2_Witness ==
  /\ scan.status = "ok"
  /\ \E p \in scan.seen_paths :
       /\ HasImage(scan.pre, p) /\ ~StatDiffers(ImageAt(scan.pre, p), fs[p])
       /\ ImageAt(db, p).updated_at < nScans

\* C3. Change detection: a file that has a row and whose size or mtime
\* differs from the stored one is counted under updated, and after the scan
\* its row stores the size, the mtime and the digest of the file.
C3_ChangeDetected ==
  scan.status = "ok" =>
    LET changed == { p \in scan.seen_paths :
                       HasImage(scan.pre, p) /\ StatDiffers(ImageAt(scan.pre, p), fs[p]) }
    IN /\ scan.updated = Cardinality(changed)
       /\ scan.added = Cardinality({p \in scan.seen_paths : ~HasImage(scan.pre, p)})
       /\ \A p \in changed :
            /\ HasImage(db, p)
            /\ ImageAt(db, p).size = fs[p].size
            /\ ImageAt(db, p).mtime = fs[p].mtime
            /\ ImageAt(db, p).file_hash = Digest(fs[p].data)
            /\ ImageAt(db, p).updated_at = nScans

C3_Witness ==
  /\ scan.status = "ok" /\ scan.updated > 0
  /\ \E p \in scan.seen_paths :
       HasImage(scan.pre, p) /\ ImageAt(scan.pre, p).file_hash # ImageAt(db, p).file_hash

\* C4. Cleanup removal: after a scan with cleanup=true the catalog has no
\* row whose path the walk did not enumerate; the row of a deleted file is
\* gone.
C4_CleanupRemoves ==
  (scan.status = "ok" /\ scan.cleanup) =>
     /\ \A r \in db.images : r.path \in iter_image_files(fs, scan.root)
     /\ \A p \in Files : fs[p] = Absent => ~HasImage(db, p)

C4_Witness ==
  /\ scan.status = "ok" /\ scan.cleanup
  /\ \E p \in Files : HasImage(scan.pre, p) /\ fs[p] = Absent
  /\ db.images # {}

\* C5. A scan with cleanup=false deletes no row: every row present before
\* it is present after it with the same id and path, also when its file is
\* missing.
C5_NoCleanupKeepsRows ==
  (scan.status = "ok" /\ ~scan.cleanup) =>
     \A r \in scan.pre.images : \E q \in db.images : q.id = r.id /\ q.path = r.path

C5_Witness ==
  /\ scan.status = "ok" /\ ~scan.cleanup
  /\ \E p \in Files : HasImage(scan.pre, p) /\ fs[p] = Absent /\ HasImage(db, p)

\* C6. A root that does not exist or is not a directory makes scan fail
\* with the invalid-root error before any side effect: no thumbnail
\* directory, no change of the catalog or of the settings.
C6_InvalidRootNoEffect ==
  (scan.status # "none" /\ ~(Exists(fs, scan.root) /\ IsDir(fs, scan.root))) =>
     /\ scan.status = "invalid_root"
     /\ pc = "idle" /\ sess = Closed
     /\ scan.root \notin thumbDirs
     /\ db = scan.pre
     /\ settings = scan.preSettings

C6_Witness ==
  /\ scan.status = "invalid_root" /\ IsFile(fs, scan.root) /\ db.images # {}

\* C7. Per-file errors never abort a scan of a valid root: the scan visits
\* every enumerated file and returns its counters (no exception of the
\* walk reaches the caller).
C7_PerFileErrorsAbsorbed ==
  scan.status # "error"

\* C8, as claimed. All mutations of one scan commit as one unit: until the
\* scan has finished, none of them is visible in the persisted catalog.
C8_SingleUnitOfWork ==
  scan.status \in {"running", "interrupted", "error"} => db = scan.pre

\* C8, amended. The insert of a new Image row (line 140) and the creation
\* of a Tag (line 86) commit the session.  Of a scan that failed or was
\* interrupted, the cleanup deletions are not visible (every row present
\* before is still there), and updates and associations are visible only
\* together with a new Image row or a new Tag of that scan.
C8_CommitsAtInsertAndTag ==
  scan.status \in {"running", "interrupted", "error"} =>
     /\ \A r \in scan.pre.images : \E q \in db.images : q.id = r.id /\ q.path = r.path
     /\ ( /\ {r.id : r \in db.images} = {r.id : r \in scan.pre.images}
          /\ db.tags = scan.pre.tags ) => db = scan.pre

C8_Witness ==
  /\ scan.status = "interrupted" /\ db # scan.pre /\ scan.pre.images # {}

\* C9. Resume after a partial run: when a scan was interrupted and the same
\* scan is run again on the unchanged filesystem, the catalog it ends with
\* is one an uninterrupted scan of the starting catalog ends with.
C9_ResumeEqualsUninterrupted ==
  (scan.status = "ok" /\ scan.interrupts > 0) =>
     Canon(db) \in { Canon(c) :
                       c \in ScanResults(scan.base, fs, scan.root, scan.cleanup, scan.auto_tag) }

C9_Witness ==
  /\ scan.status = "ok" /\ scan.interrupts > 0
  /\ scan.pre # scan.base /\ scan.base.images # {} /\ db # scan.pre

\* C10. Association uniqueness: after any sequence of scans, assign_tag,
\* bulk_add_tag and remove operations there is at most one association per
\* (image_id, tag_id), in the persisted catalog and in the session of a
\* running scan, also when the classifier names a tag twice for one file.
C10_AssociationUnique ==
  /\ \A l \in BagToSet(db.links) : CopiesIn(l, db.links) = 1
  /\ \A l \in BagToSet(sess.links) : CopiesIn(l, sess.links) = 1

\* A handler was asked for an association that exists, in a catalog where
\* a scan tagged the file whose two folders clean to the same name.
C10_Witness ==
  /\ route.met /\ route.name = "bulk_add_tag"
  /\ HasImage(db, F1) /\ TagsNamed(db, "A B") # {}
  /\ extract_tags_from_path(F1, Root) = <<"A B", "A B">>
  /\ LinkExists(db, ImageAt(db, F1).id, TagNamed(db, "A B").id)

\* C12. Auto-tag back-fill: after a scan with auto_tag, the row of every
\* file seen is associated with every tag the classifier derives from its
\* path, whatever branch the file took; a file indexed earlier whose size
\* and mtime are as stored gains its tags with its row left as it was and
\* without md5sum or read_image_meta being called for it.
C12_AutoTagBackfill ==
  (scan.status = "ok" /\ scan.auto_tag) =>
     \A p \in scan.seen_paths :
       /\ HasImage(db, p)
       /\ \A i \in 1..Len(TagTable[p, scan.root]) :
            /\ TagsNamed(db, TagTable[p, scan.root][i]) # {}
            /\ LinkExists(db, ImageAt(db, p).id, TagNamed(db, TagTable[p, scan.root][i]).id)
       /\ (HasImage(scan.pre, p) /\ ~StatDiffers(ImageAt(scan.pre, p), fs[p])) =>
            /\ ImageAt(scan.pre, p) \in db.images
            /\ p \notin scan.hashCalls \cup scan.metaCalls
            /\ scan.unchanged =
                 Cardinality({q \in scan.seen_paths :
                                /\ HasImage(scan.pre, q)
                                /\ ~StatDiffers(ImageAt(scan.pre, q), fs[q])})

\* A file indexed by an earlier scan without tags has gained its path tag.
C12_Witness ==
  /\ scan.status = "ok" /\ scan.auto_tag /\ scan.added = 0 /\ scan.updated = 0
  /\ \E p \in scan.seen_paths :
       /\ HasImage(scan.pre, p) /\ TagTable[p, scan.root] # <<>>
       /\ \A t \in scan.pre.tags : ~LinkExists(scan.pre, ImageAt(scan.pre, p).id, t.id)
       /\ \E t \in db.tags : LinkExists(db, ImageAt(db, p).id, t.id)

\* C20. Dimension fallback: when dimension extraction fails, a new row gets
\* width 0 and height 0, and a row being updated keeps its stored width and
\* height while its size, mtime and hash are updated; width and height of
\* every row are integers, never absent.
C20_DimensionFallback ==
  /\ \A r \in db.images \cup sess.images : r.width \in Nat /\ r.height \in Nat
  /\ scan.status = "ok" =>
       \A p \in scan.seen_paths :
         read_image_meta(fs[p]) = NoDims =>
           /\ ~HasImage(scan.pre, p) =>
                ImageAt(db, p).width = 0 /\ ImageAt(db, p).height = 0
           /\ (HasImage(scan.pre, p) /\ StatDiffers(ImageAt(scan.pre, p), fs[p])) =>
                /\ ImageAt(db, p).width = ImageAt(scan.pre, p).width
                /\ ImageAt(db, p).height = ImageAt(scan.pre, p).height
                /\ ImageAt(db, p).size = fs[p].size
                /\ ImageAt(db, p).mtime = fs[p].mtime
                /\ ImageAt(db, p).file_hash = Digest(fs[p].data)

\* A row with dimensions was updated from a file that cannot be decoded.
C20_Witness ==
  /\ scan.status = "ok" /\ scan.updated = 1
  /\ \E p \in scan.seen_paths :
       /\ HasImage(scan.pre, p) /\ read_image_meta(fs[p]) = NoDims
       /\ ImageAt(db, p).width = 4 /\ ImageAt(db, p).file_hash = "md5-3"

\* The tags an image is associated with.
LinkedTagIds(cat, image_id) == {l.tag_id : l \in {k \in BagToSet(cat.links) : k.image_id = image_id}}

\* C18. Removed is terminal and re-entry is fresh: a file a scan finds
\* without a row (never seen, or seen and removed since) is counted under
\* added, and its new row carries exactly the associations of a
\* never-before-seen file at that path: the path-derived tags when auto_tag
\* is on, none when it is off.
C18_ReentryFresh ==
  scan.status = "ok" =>
     /\ scan.added = Cardinality({p \in scan.seen_paths : ~HasImage(scan.pre, p)})
     /\ \A p \in scan.seen_paths :
          ~HasImage(scan.pre, p) =>
             LinkedTagIds(db, ImageAt(db, p).id) =
               IF scan.auto_tag
                 THEN {TagNamed(db, TagTable[p, scan.root][i]).id :
                         i \in 1..Len(TagTable[p, scan.root])}
                 ELSE {}

\* The catalog keeps one row per path and id, one Tag per name and one
\* association per pair; a scan whose insert hit the unique-path constraint
\* has raised, and the path has its one row.
CatalogSound ==
  /\ \A r, q \in db.images : (r.path = q.path \/ r.id = q.id) => r = q
  /\ \A t, u \in db.tags : (t.name = u.name \/ t.id = u.id) => t = u
  /\ \A l \in BagToSet(db.links) : CopiesIn(l, db.links) = 1
  /\ \A i \in Workers :
       workers[i].raced # {} =>
          /\ workers[i].pc = "error"
          /\ \A p \in workers[i].raced : Cardinality(ImagesAt(db, p)) = 1

\* Worker i found its path absent and the other scan has inserted it since.
Lost(i) ==
  workers[i].pc = "visit" /\ ~workers[i].found /\ HasImage(db, workers[i].apath)

\* C13. Concurrent scans: when two scans of the same catalog and root
\* interleave and both find a new path absent, at most one Image row of
\* that path is ever persisted: the next step of the scan that lost the race
\* is to raise, leaving the catalog as it is, and the catalog stays sound.
C13_LoserFails ==
  /\ []CatalogSound
  /\ [][\A i \in Workers :
          (Lost(i) /\ workers'[i] # workers[i]) =>
             (workers'[i].pc = "error" /\ db' = db)]_vars

\* Both scans found F2 absent; one inserted it and finished, the insert of
\* the other failed.
C13_Witness ==
  \E i, j \in Workers :
    /\ workers[i].raced = {F2} /\ workers[i].pc = "error"
    /\ workers[j].pc = "done" /\ workers[j].added >= 1
    /\ HasImage(db, F2)

(***************************************************************************)
(* Properties of the stored paths, the enumeration and the classifier.     *)
(***************************************************************************)
\* C11. Path uniqueness: in every reachable state, after any sequence of
\* scans over any roots, no two Image rows have the same path, in the
\* persisted catalog and in the session of a running scan, and every stored
\* path is the resolved absolute path of a regular file (never the path of
\* a symbolic link).
C11_PathUnique ==
  /\ \A r, q \in db.images : r.path = q.path => r = q
  /\ \A r, q \in sess.images : r.path = q.path => r = q
  /\ \A r \in db.images \cup sess.images : r.path \in Paths /\ fs[r.path].kind = "file"

\* The second scan of a tree has finished; the row of F2 was inserted when
\* the symbolic link to it was enumerated.
C11_Witness ==
  /\ scan.status = "ok" /\ nScans = 2
  /\ fs[Alias].kind = "link" /\ HasImage(db, F2) /\ ImageAt(db, F2).filename = "l.jpg"
  /\ Cardinality(db.images) = 2

\* The segments of p below root.
SegmentsBelow(p, root) == {p[i] : i \in (Len(root) + 1)..Len(p)}

\* C14. Enumeration filter: scan enumerates exactly the regular files under
\* root whose extension, compared case-insensitively, is an allowed one and
\* whose path below root has no segment of the exclusion set; folder names
\* above the root never make a file skipped.
C14_EnumerationFilter ==
  (scan.status = "running" /\ pc = "walk" /\ scan.seen_paths = {}) =>
     scan.todo = { p \in Paths :
                     /\ IsFile(fs, p) /\ IsPrefix(scan.root, p) /\ p # scan.root
                     /\ p \in ImagePaths
                     /\ SegmentsBelow(p, scan.root) \cap EnumExcluded = {} }

\* C15. Exclusion vocabulary agreement: for every folder of the vault, the
\* enumerator skips the image files under it if and only if the folder's
\* name is one the classifier drops as excluded.
C15_SameVocabulary ==
  (scan.status = "running" /\ pc = "walk" /\ scan.seen_paths = {} /\ scan.root = Root) =>
     \A p \in Paths :
       (IsFile(fs, p) /\ p \in ImagePaths /\ IsPrefix(Root, p) /\ Len(p) = Len(Root) + 2) =>
          ((p \notin scan.todo) <=> (p[Len(Root) + 1] \in ClassifierExcluded))

\* The cleaned form of a folder name, before any change of case: underscores
\* and hyphens become spaces, the ends are trimmed.
Cleaned(folder) == Strip([i \in 1..Len(Chars(folder)) |->
                            IF Chars(folder)[i] \in {"_", "-"} THEN " " ELSE Chars(folder)[i]])

\* C16. Path classification: for a file inside root, the classifier returns
\* the cleaned names of the containing folders between root and the file,
\* in root-to-leaf order, the filename left out; every folder that gives no
\* name is an excluded one or cleans to fewer than 2 characters; a file
\* directly under root gives the empty list; no returned name is an
\* excluded folder name; every returned name has at least 2 characters and
\* no underscore or hyphen.
C16_Classification ==
  ( /\ route.name = "extract_tags_from_path"
    /\ IsPrefix(route.args[2], route.args[1]) /\ route.args[1] # route.args[2] ) =>
     LET image_path == route.args[1]
         root_dir == route.args[2]
         folders == SubSeq(image_path, Len(root_dir) + 1, Len(image_path) - 1)
         tags == route.answer
     IN /\ \E at \in [1..Len(tags) -> 1..Len(folders)] :
             /\ \A i, j \in 1..Len(tags) : i < j => at[i] < at[j]
             /\ \A i \in 1..Len(tags) :
                  LowerStr(Chars(tags[i])) = LowerStr(Cleaned(folders[at[i]]))
             /\ \A k \in 1..Len(folders) :
                  (\A i \in 1..Len(tags) : at[i] # k) =>
                     \/ folders[k] \in ClassifierExcluded
                     \/ Len(Cleaned(folders[k])) < 2
        /\ (Len(image_path) = Len(root_dir) + 1) => tags = <<>>
        /\ \A i \in 1..Len(tags) :
             /\ tags[i] \notin ClassifierExcluded \cup EnumExcluded
             /\ Len(Chars(tags[i])) >= 2
             /\ \A k \in 1..Len(Chars(tags[i])) : Chars(tags[i])[k] \notin {"_", "-"}

C16_Witness ==
  /\ route.name = "extract_tags_from_path"
  /\ route.args = <<F1, Root>> /\ route.answer = <<"A B", "A B">>

\* C17. The classifier fails soft: for a path that is not under root_dir it
\* returns the empty list; the files a scan hands to it are all under the
\* scan's root, so a scan never tags a file by folders outside the root.
C17_FailsSoft ==
  /\ ( /\ route.name = "extract_tags_from_path"
       /\ ~IsPrefix(route.args[2], route.args[1]) ) => route.answer = <<>>
  /\ scan.status = "running" => \A p \in scan.todo : IsPrefix(scan.root, p)

C17_Witness ==
  /\ route.name = "extract_tags_from_path"
  /\ route.args = <<InPycache, Root2>> /\ route.answer = <<>>

\* C19. Counters count Image rows: added is the number of rows the scan
\* inserted, updated the number of rows present before whose metadata it
\* rewrote, unchanged the number of rows present before it left as they
\* were; every row whose path was seen is counted exactly once.
C19_CountersCountRows ==
  scan.status = "ok" =>
     /\ scan.added = Cardinality({p \in scan.seen_paths : ~HasImage(scan.pre, p)})
     /\ scan.updated =
          Cardinality({p \in scan.seen_paths :
                         HasImage(scan.pre, p) /\ StatDiffers(ImageAt(scan.pre, p), fs[p])})
     /\ scan.unchanged =
          Cardinality({p \in scan.seen_paths :
                         HasImage(scan.pre, p) /\ ~StatDiffers(ImageAt(scan.pre, p), fs[p])})
     /\ scan.added + scan.updated + scan.unchanged = Cardinality(scan.seen_paths)

(***************************************************************************)
(* routes.py: the handlers that create, rename and delete tags and delete  *)
(* images; app.py: the seeding of the default tags.                        *)
(***************************************************************************)
\* create_tag(name): the name is stripped; an empty name is refused; a tag
\* of that name is added unless the lookup finds one.
create_tag(name) ==
  LET n == Stripped(name)
  IN IF n = "" THEN Handled("create_tag", 400, FALSE, db)
     ELSE Handled("create_tag", 303, TagsNamed(db, n) # {}, WithTagNamed(db, n))

\* update_tag(tag_id, name): refused when another tag has the name.
update_tag(tag_id, name) ==
  LET n == Stripped(name)
  IN IF n = "" THEN Handled("update_tag", 400, FALSE, db)
     ELSE IF \A t \in db.tags : t.id # tag_id THEN Handled("update_tag", 404, FALSE, db)
     ELSE IF \E t \in db.tags : t.name = n /\ t.id # tag_id
       THEN Handled("update_tag", 400, TRUE, db)
     ELSE Handled("update_tag", 303, FALSE,
                  [db EXCEPT !.tags =
                     { IF t.id = tag_id
                         THEN [t EXCEPT !.name = n, !.color = None, !.description = None]
                         ELSE t : t \in @ }])

\* delete_tag(tag_id): session.delete(tag) and the commit.  The Tag row is
\* deleted; no statement touches the link table (models.py declares no
\* relationship and no ON DELETE rule).
delete_tag(tag_id) ==
  IF \A t \in db.tags : t.id # tag_id THEN Handled("delete_tag", 404, FALSE, db)
  ELSE Handled("delete_tag", 303, FALSE, [db EXCEPT !.tags = {t \in @ : t.id # tag_id}])

\* The image ids a bulk deletion is called with; no image has the id 3.
DeleteLists == {<<1>>, <<2, 1>>, <<3, 2>>}

\* routes.py 444-459, for the ids of the list in order: an id without a row
\* is skipped; the file is unlinked when root_dir is set and the path
\* resolves under it; the links of the image and its row are deleted.  ok is
\* FALSE when resolve_under_root raised.
RECURSIVE BulkDeleted(_, _, _, _)
BulkDeleted(f, cat, root, image_ids) ==
  IF image_ids = <<>> THEN [ok |-> TRUE, fs |-> f, cat |-> cat]
  ELSE LET image_id == Head(image_ids) IN
       IF \A r \in cat.images : r.id # image_id
         THEN BulkDeleted(f, cat, root, Tail(image_ids))
       ELSE LET img == CHOOSE r \in cat.images : r.id = image_id IN
            IF root # NoRoot /\ ~UnderRoot(f, root, img.path)
              THEN [ok |-> FALSE, fs |-> f, cat |-> cat]
              ELSE BulkDeleted(
                     IF root # NoRoot /\ Exists(f, Resolve(f, img.path))
                       THEN [f EXCEPT ![Resolve(f, img.path)] = Absent] ELSE f,
                     [cat EXCEPT
                        !.images = @ \ {img},
                        !.links = [l \in {k \in DOMAIN @ : k.image_id # image_id} |-> @[l]]],
                     root, Tail(image_ids))

\* bulk_delete_images(image_ids): one session, committed after the loop.  An
\* exception rolls the session back; the files unlinked before it stay
\* unlinked.
bulk_delete_images(image_ids) ==
  LET r == BulkDeleted(fs, db, settings.root_dir, image_ids)
  IN /\ pc = "idle" /\ nUserOps < MaxUserOps
     /\ nUserOps' = nUserOps + 1
     /\ scan' = NoScan
     /\ route' = [NoRoute EXCEPT !.name = "bulk_delete_images", !.args = image_ids,
                                 !.answer = IF r.ok THEN 303 ELSE 400]
     /\ fs' = r.fs
     /\ db' = IF r.ok THEN r.cat ELSE db
     /\ UNCHANGED <<thumbDirs, settings, sess, pc, workers, nScans, nFsOps>>

\* app.py 110-121
ColorPalette ==
  <<"#93c5fd", "#22d3ee", "#a78bfa", "#fb7185", "#fde68a", "#f472b6", "#34d399", "#fbbf24",
    "#fb923c", "#c084fc">>

\* app.py 83-86 and 123-126: the tags of the list that no Tag row has are
\* added, in order.
RECURSIVE WithTagsSeeded(_, _)
WithTagsSeeded(cat, pairs) ==
  IF pairs = <<>> THEN cat
  ELSE WithTagsSeeded(
         IF TagsNamed(cat, Head(pairs)[1]) # {} THEN cat
         ELSE [cat EXCEPT !.tags = @ \cup {[id |-> NextId(cat.tags), name |-> Head(pairs)[1],
                                             color |-> Head(pairs)[2], description |-> None]}],
         Tail(pairs))

\* The folder tags of the model's files, as sorted() orders them.
SortedFolderTags == <<"A B", "SFW">>

\* app.py 94-108: the folder tags of the images whose file exists, when the
\* root_dir setting names a path that exists.
SeedFolderTags(cat, f, root) ==
  IF root = NoRoot \/ ~Exists(f, root) THEN {}
  ELSE UNION { {extract_tags_from_path(r.path, root)[i] :
                  i \in 1..Len(extract_tags_from_path(r.path, root))} :
               r \in {q \in cat.images : Exists(f, q.path)} }

\* seed_default_tags(): the workflow tags, then the folder tags, each with
\* the colour of its place in the sorted list.
seed_default_tags(cat, f, root) ==
  LET folder_tags == SeedFolderTags(cat, f, root)
      sorted == SelectSeq(SortedFolderTags, LAMBDA n : n \in folder_tags)
  IN WithTagsSeeded(WithTagsSeeded(cat, WorkflowTags),
                    [i \in 1..Len(sorted) |->
                       <<sorted[i], ColorPalette[((i - 1) % Len(ColorPalette)) + 1]>>])

\* The application starts again: app.py 132-134.
Restart ==
  Handled("seed_default_tags", 0, FALSE, seed_default_tags(db, fs, settings.root_dir))

(***************************************************************************)
(* The catalog under scans of the vault, called directly or through        *)
(* scan_route, and the handlers that delete tags and images.               *)
(***************************************************************************)
ManageScan(via_route, cleanup, auto_tag) ==
  /\ nScans < MaxManageScans
  /\ IF via_route THEN scan_route(Root, cleanup, auto_tag, FALSE)
                  ELSE ScanCall(Root, cleanup, auto_tag)

NextManage ==
  \/ \E via_route \in BOOLEAN, cleanup \in BOOLEAN, auto_tag \in BOOLEAN :
       ManageScan(via_route, cleanup, auto_tag)
  \/ \E file \in Files : ScanVisit(file)
  \/ ScanTag
  \/ ScanFinish
  \/ \E t \in TagIds : delete_tag(t)
  \/ \E i \in ImageIds : delete_image(i)
  \/ \E ids \in DeleteLists : bulk_delete_images(ids)
  \/ \E i \in ImageIds, t \in TagIds : assign_tag(i, "", t)
  \/ \E ids \in IdLists, name \in TagNames : bulk_add_tag(ids, name)

SpecManage == Init /\ [][NextManage]_vars

(***************************************************************************)
(* Properties of the cleanup and of the handlers that delete.              *)
(***************************************************************************)
\* C21. Cleanup deletes only vanished files: when a scan with cleanup has
\* finished, every Image row that was there before it and whose file still
\* exists on disk is still there, whatever root it was indexed under.
C21_CleanupOnlyVanished ==
  (scan.status = "ok" /\ scan.cleanup) =>
     \A r \in scan.pre.images : IsFile(fs, r.path) => HasImage(db, r.path)

\* C22. Tag deletion: when delete_tag(tag_id) succeeds, the Tag row is gone
\* and no association with that tag_id is left in the catalog.
C22_TagDeletion ==
  [][\A t \in TagIds :
       (delete_tag(t) /\ route'.answer = 303) =>
          /\ \A u \in db'.tags : u.id # t
          /\ \A l \in BagToSet(db'.links) : l.tag_id # t]_vars

\* The Image row of that id, its associations and its file are gone.
Deleted(cat, f, img) ==
  /\ \A r \in cat.images : r.id # img.id
  /\ \A l \in BagToSet(cat.links) : l.image_id # img.id
  /\ ~Exists(f, img.path)

\* C23. User deletion: when delete_image(image_id) or bulk_delete_images
\* succeeds for an image that exists, its Image row, its associations and
\* its backing file are gone afterwards, whether a root_dir setting is
\* configured or not.
C23_UserDeletion ==
  [][/\ \A i \in ImageIds :
          (delete_image(i) /\ route'.answer = 303) =>
             \A img \in {r \in db.images : r.id = i} : Deleted(db', fs', img)
     /\ \A ids \in DeleteLists :
          (bulk_delete_images(ids) /\ route'.answer = 303) =>
             \A img \in {r \in db.images : \E k \in DOMAIN ids : r.id = ids[k]} :
                Deleted(db', fs', img)]_vars

\* C26. Referential integrity: in every reachable state, every association
\* refers to an Image row and a Tag row that both exist.
C26_ReferentialIntegrity ==
  \A l \in BagToSet(db.links) :
     /\ \E r \in db.images : r.id = l.image_id
     /\ \E t \in db.tags : t.id = l.tag_id

(***************************************************************************)
(* Tag names under a scan of the vault and the handlers that create or     *)
(* rename tags, each handler in a session of its own while the one scan of *)
(* the behaviour runs.                                                     *)
(* A handler writes when no other session holds the write lock.            *)
(***************************************************************************)
Unlocked ==
  \A i \in Workers : workers[i].pc \in {"idle", "done", "error"} \/ ~Pending(workers[i])

\* The configured vault: scan_route has stored root_dir.
InitTags ==
  /\ fs = [p \in Files |-> FileOf(1, 1, "img1", TRUE)]
  /\ thumbDirs = {Root}
  /\ db = EmptyCatalog
  /\ settings = [root_dir |-> Root, last_scan |-> 1]
  /\ sess = Closed
  /\ pc = "idle"
  /\ scan = NoScan
  /\ route = NoRoute
  /\ workers = [i \in Workers |-> IdleWorker]
  /\ nScans = 0 /\ nFsOps = 0 /\ nUserOps = 0

NextTags ==
  \/ \E auto_tag \in BOOLEAN : workers[1].pc = "idle" /\ CEnter(1, FALSE, auto_tag)
  \/ \E file \in Files : CLookup(1, file)
  \/ CVisit(1)
  \/ CTagFind(1)
  \/ CTagLink(1)
  \/ CCleanup(1)
  \/ CFinish(1)
  \/ /\ Unlocked /\ nUserOps < MaxTagOps
     /\ \/ \E name \in TagNames \cup {" "} : create_tag(name)
        \/ \E t \in TagIds, name \in TagNames : update_tag(t, name)
        \/ \E name \in TagNames : assign_tag(1, name, 0)
        \/ \E name \in TagNames : bulk_add_tag(<<2, 1>>, name)
        \/ Restart

SpecTags == InitTags /\ [][NextTags]_vars

(***************************************************************************)
(* Properties of the tags.                                                 *)
(***************************************************************************)
TagNamesUnique(cat) == \A t, u \in cat.tags : t.name = u.name => t = u

\* get_or_create_tag on the catalog cat: the Tag of that name is there
\* afterwards, and one row was added exactly when none had the name.
GetOrCreateExact(cat, name) ==
  LET after == WithTag(cat, name)
  IN /\ Cardinality(TagsNamed(after, name)) = 1
     /\ IF TagsNamed(cat, name) # {} THEN after = cat
        ELSE Cardinality(after.tags) = Cardinality(cat.tags) + 1 /\ cat.tags \subseteq after.tags

DefaultWidth == 360

\* f"{image_id}_{w}.jpg"
ThumbName(image_id, w) ==
  CASE image_id = 1 /\ w = 360 -> "1_360.jpg"
    [] image_id = 2 /\ w = 360 -> "2_360.jpg"
    [] OTHER -> "n_w.jpg"

\* routes.py 420-422: thumb_dir / f"{image_id}_{w}.jpg"
ThumbPath(root, image_id, w) == root \o <<DEFAULT_THUMB_DIRNAME, ThumbName(image_id, w)>>

ThumbPaths == {ThumbPath(r, i, DefaultWidth) : r \in {Root, SubRoot}, i \in ImageIds}

\* What PIL makes of the bytes of a file (routes.py 428-432): a JPEG of
\* the picture, or an exception for bytes that are no picture.
ThumbOf(data) ==
  CASE data = "img1" -> "thumb1"
    [] data = "img2" -> "thumb2"
    [] OTHER -> "raise"

\* The time of the clock: every change of the filesystem takes time.
Now == 1 + nFsOps

\* A handler that serves files has answered.  args is the image id, then
\* the paths the handler opened.
Served(name, image_id, answer, opened, regenerated) ==
  [NoRoute EXCEPT !.name = name, !.args = <<image_id>> \o opened, !.answer = answer,
                  !.met = regenerated]

\* media(image_id)
media(image_id) ==
  LET root == settings.root_dir
      rows == {r \in db.images : r.id = image_id}
      img == CHOOSE r \in rows : TRUE
      real == Resolve(fs, img.path)
  IN /\ pc = "idle" /\ nUserOps < MaxServeOps
     /\ nUserOps' = nUserOps + 1
     /\ scan' = NoScan
     /\ route' = IF root = NoRoot THEN Served("media", image_id, 400, <<>>, FALSE)
                 ELSE IF rows = {} THEN Served("media", image_id, 404, <<>>, FALSE)
                 ELSE IF ~UnderRoot(fs, root, img.path)
                   THEN Served("media", image_id, 400, <<>>, FALSE)
                 ELSE IF ~Exists(fs, real) THEN Served("media", image_id, 404, <<>>, FALSE)
                 ELSE Served("media", image_id, 200, <<real>>, FALSE)
     /\ UNCHANGED <<fs, thumbDirs, db, settings, sess, pc, workers, nScans, nFsOps>>

\* Mutant of routes.py line 426: the cached thumbnail is never compared with
\* the source.
IsStale_Never(thumb, source) == FALSE

\* routes.py line 426: the cached thumbnail is older than the source file.
IsStale(thumb, source) == thumb.mtime < source.mtime

\* thumbnail(image_id, w): the thumbnail is generated when the cache has
\* none or an older one, and served from the cache.
thumbnail(image_id, w) ==
  LET root == settings.root_dir
      rows == {r \in db.images : r.id = image_id}
      img == CHOOSE r \in rows : TRUE
      real == Resolve(fs, img.path)
      thumb_path == ThumbPath(root, image_id, w)
      source == fs[Target(fs, img.path)]
      generate == fs[thumb_path] = Absent \/ IsStale(fs[thumb_path], source)
  IN /\ pc = "idle" /\ nUserOps < MaxServeOps
     /\ nUserOps' = nUserOps + 1
     /\ scan' = NoScan
     /\ IF root = NoRoot \/ rows = {}
          THEN /\ route' = Served("thumbnail", image_id, IF root = NoRoot THEN 400 ELSE 404,
                                  <<>>, FALSE)
               /\ UNCHANGED <<fs, thumbDirs>>
        ELSE IF ~UnderRoot(fs, root, img.path) \/ ~Exists(fs, real)
          THEN /\ route' = Served("thumbnail", image_id,
                                  IF ~UnderRoot(fs, root, img.path) THEN 400 ELSE 404, <<>>, FALSE)
               /\ UNCHANGED <<fs, thumbDirs>>
        ELSE /\ thumbDirs' = thumbDirs \cup {root}
             /\ IF ~generate
                  THEN /\ route' = Served("thumbnail", image_id, 200, <<thumb_path>>, FALSE)
                       /\ UNCHANGED fs
                ELSE IF ~source.readable \/ ThumbOf(source.data) = "raise"
                  THEN /\ route' = Served("thumbnail", image_id, 500, <<real>>, FALSE)
                       /\ UNCHANGED fs
                ELSE /\ route' = Served("thumbnail", image_id, 200, <<real, thumb_path>>, TRUE)
                     /\ fs' = [fs EXCEPT ![thumb_path] =
                                 FileOf(1, Now, ThumbOf(source.data), TRUE)]
     /\ UNCHANGED <<db, settings, sess, pc, workers, nScans, nFsOps>>

(***************************************************************************)
(* Scans requested through scan_route, for the vault named in its several  *)
(* forms, a folder of it and a path that is no directory; the handlers     *)
(* that serve and delete files; an indexed file replaced by a symbolic     *)
(* link to a file outside the vault.                                       *)
(***************************************************************************)
RouteRoots == RootForms \cup {SubRoot, NoDir}

InitRoute ==
  /\ fs = [p \in Files \cup {Outside} \cup ThumbPaths |->
             IF p \in ThumbPaths THEN Absent ELSE FileOf(1, 1, "img1", TRUE)]
  /\ thumbDirs = {}
  /\ db = EmptyCatalog
  /\ settings = NoSettings
  /\ sess = Closed
  /\ pc = "idle"
  /\ scan = NoScan
  /\ route = NoRoute
  /\ workers = [i \in Workers |-> IdleWorker]
  /\ nScans = 0 /\ nFsOps = 0 /\ nUserOps = 0

\* A file of the vault is replaced by a symbolic link.
ReplaceByLink(p) ==
  fs[p].kind = "file" /\ FsChange([fs EXCEPT ![p] = LinkTo(Outside)])

RouteScan(root, cleanup, reset_db) ==
  nScans < MaxRouteScans /\ scan_route(root, cleanup, FALSE, reset_db)

NextRoute ==
  \/ \E root \in RouteRoots, cleanup \in BOOLEAN, reset_db \in BOOLEAN :
       RouteScan(root, cleanup, reset_db)
  \/ \E file \in Files : ScanVisit(file)
  \/ ScanFinish
  \/ \E p \in Files : ReplaceByLink(p)
  \/ \E i \in ImageIds : media(i)

SpecRoute == InitRoute /\ [][NextRoute]_vars

(***************************************************************************)
(* The handlers that serve and delete files, after scans of the vault and  *)
(* of a folder of it requested through scan_route.                         *)
(***************************************************************************)
ServeScan(root, cleanup) ==
  nScans < MaxRouteScans /\ scan_route(root, cleanup, FALSE, FALSE)

NextServe ==
  \/ \E root \in {Root, SubRoot}, cleanup \in BOOLEAN : ServeScan(root, cleanup)
  \/ \E file \in Files : ScanVisit(file)
  \/ ScanFinish
  \/ \E p \in Files : ReplaceByLink(p)
  \/ \E i \in ImageIds : media(i)
  \/ \E i \in ImageIds : thumbnail(i, DefaultWidth)
  \/ \E i \in ImageIds : delete_image(i)
  \/ \E ids \in DeleteLists : bulk_delete_images(ids)

SpecServe == InitRoute /\ [][NextServe]_vars

(***************************************************************************)
(* Properties of scan_route and of the handlers that serve files.          *)
(***************************************************************************)
\* C25. A scan requested through scan_route with a root that does not exist
\* or is no directory fails and leaves the persisted state as it was: the
\* root_dir and last_scan settings and the Image, Tag and association rows.
C25_InvalidRootRequest ==
  [][\A root \in RouteRoots, cleanup \in BOOLEAN, reset_db \in BOOLEAN :
       (RouteScan(root, cleanup, reset_db) /\ scan'.status = "invalid_root") =>
          (db' = db /\ settings' = settings)]_vars

\* The rows a scan inserted.
InsertedBy(before, after) == {r \in after.images : \A q \in before.images : q.id # r.id}

\* C28. Indexed images are servable: when scan_route has succeeded for a
\* root string R, every Image row the scan inserted whose file exists is
\* accepted by resolve_under_root(Path(root_dir setting), image path), in
\* whatever form R names the directory.
C28_IndexedServable ==
  (scan.status = "ok" /\ scan.via = "scan_route") =>
     \A r \in InsertedBy(scan.pre, db) :
        Exists(fs, r.path) => UnderRoot(fs, settings.root_dir, r.path)

\* The resolved path p is the configured root or lies below it.
WithinConfiguredRoot(p) ==
  settings.root_dir # NoRoot /\ IsPrefix(ResolveRoot(settings.root_dir), p)

\* C27. Path safety: a step of media, thumbnail, delete_image or
\* bulk_delete_images opens and unlinks only files whose resolved path is
\* the configured root or below it; when resolve_under_root refuses the
\* path of the image, delete_image answers with the outside-root error and
\* leaves the filesystem and the catalog as they were.
C27_PathSafety ==
  [][(nUserOps' = nUserOps + 1) =>
       /\ \A p \in DOMAIN fs :
            (fs[p] # Absent /\ fs'[p] = Absent) => WithinConfiguredRoot(p)
       /\ route'.name \in {"media", "thumbnail"} =>
            \A k \in 2..Len(route'.args) : WithinConfiguredRoot(route'.args[k])
       /\ (route'.name = "delete_image" /\ route'.answer = 400) =>
            (fs' = fs /\ db' = db)]_vars

\* delete_image was refused for the row of a file outside the vault, which
\* a scan had reached through a symbolic link; the row and the file remain.
C27_Witness ==
  /\ route.name = "delete_image" /\ route.answer = 400
  /\ settings.root_dir = Root
  /\ HasImage(db, Outside) /\ fs[Outside].kind = "file"

(***************************************************************************)
(* The thumbnail cache under scans of the vault, deletions of images and   *)
(* files that are written anew: with the time of the write, or with an     *)
(* older time they bring along (a file moved or copied into the vault).    *)
(***************************************************************************)
NewPictures == {FileOf(2, 1, "img2", TRUE), FileOf(2, 2, "img2", TRUE)}

NextThumbs ==
  \/ \E cleanup \in BOOLEAN : ServeScan(Root, cleanup)
  \/ \E file \in Files : ScanVisit(file)
  \/ ScanFinish
  \/ \E p \in Files, c \in NewPictures : WriteFile(p, c)
  \/ \E i \in ImageIds : thumbnail(i, DefaultWidth)
  \/ \E i \in ImageIds : delete_image(i)

SpecThumbs == InitRoute /\ [][NextThumbs]_vars

\* The thumbnail just served for the image of the request.
ServedThumb == fs[ThumbPath(settings.root_dir, route.args[1], DefaultWidth)]

\* The file now stored at the path of the image of the request.
SourceOfRequest ==
  fs[Target(fs, (CHOOSE r \in db.images : r.id = route.args[1]).path)]

\* C29. Thumbnail freshness: the thumbnail served for image_id and width w
\* was generated from the file now stored at the path of that image: never
\* from the file of an image removed since, and never from bytes the file
\* no longer has.
C29_ThumbnailFresh ==
  (route.name = "thumbnail" /\ route.answer = 200) =>
     ServedThumb.data = ThumbOf(SourceOfRequest.data)

(***************************************************************************)
(* routes.py: export_preview and export_execute.  A list parameter is the  *)
(* sequence of the pieces between its commas, <<>> when the parameter is   *)
(* absent or empty; q and tag are "" when absent.                          *)
(***************************************************************************)
\* [t.strip() for t in names.split(',') if t.strip()]
RECURSIVE StrippedNames(_)
StrippedNames(pieces) ==
  IF pieces = <<>> THEN <<>>
  ELSE (IF Stripped(Head(pieces)) # "" THEN <<Stripped(Head(pieces))>> ELSE <<>>)
       \o StrippedNames(Tail(pieces))

\* int(id.strip()) of the pieces for which id.strip().isdigit()
DigitValue == ("1" :> 1) @@ ("2" :> 2) @@ ("3" :> 3)
RECURSIVE IdList(_)
IdList(pieces) ==
  IF pieces = <<>> THEN <<>>
  ELSE (IF Stripped(Head(pieces)) \in DOMAIN DigitValue
          THEN <<DigitValue[Stripped(Head(pieces))]>> ELSE <<>>)
       \o IdList(Tail(pieces))

\* The ids of the tags of the list that exist, in the order of the list.
RECURSIVE FoundTagIds(_, _)
FoundTagIds(cat, names) ==
  IF names = <<>> THEN <<>>
  ELSE (IF TagsNamed(cat, Head(names)) # {} THEN <<TagNamed(cat, Head(names)).id>> ELSE <<>>)
       \o FoundTagIds(cat, Tail(names))

Range(seq) == {seq[i] : i \in DOMAIN seq}

\* Image.filename.contains(q): LIKE '%q%', which SQLite evaluates without
\* regard to the case of ASCII letters.
FilenameContains(filename, q) ==
  LET name == LowerStr(Chars(filename))
      part == LowerStr(Chars(q))
  IN \E i \in 1..(Len(name) - Len(part) + 1) : SubSeq(name, i, i + Len(part) - 1) = part

\* The images with a link row to the tag.
LinkedTo(cat, tag_id) == {r \in cat.images : LinkExists(cat, r.id, tag_id)}

\* count(ImageTagLink.tag_id) of the rows of one image whose tag is listed.
LinkRows(cat, image_id, tag_ids) ==
  LET rows == {l \in BagToSet(cat.links) : l.image_id = image_id /\ l.tag_id \in tag_ids}
  IN IF rows = {} THEN 0 ELSE BagCardinality([l \in rows |-> cat.links[l]])

\* Lines 543-548 and 642-647: the images of the listed ids.
SelectedByIds(cat, image_ids) == {r \in cat.images : r.id \in Range(IdList(image_ids))}

\* Lines 553-554 and 652-653
MatchingQ(cat, q) ==
  IF q = "" THEN cat.images ELSE {r \in cat.images : FilenameContains(r.filename, q)}

\* Lines 581-590 and 666-673: NOT IN the images of each excluded tag found.
NotExcluded(cat, rows, exclude_tags) ==
  {r \in rows : \A t \in Range(FoundTagIds(cat, StrippedNames(exclude_tags))) :
                  ~LinkExists(cat, r.id, t)}

\* export_preview, lines 541-591: matching_images.
PreviewSelection(cat, in) ==
  IF in.image_ids # <<>> THEN SelectedByIds(cat, in.image_ids)
  ELSE LET byQ == MatchingQ(cat, in.q)
           byTag == IF in.tag # "" /\ TagsNamed(cat, in.tag) # {}
                      THEN byQ \cap LinkedTo(cat, TagNamed(cat, in.tag).id)
                      ELSE byQ
           include_tag_ids == FoundTagIds(cat, StrippedNames(in.include_tags))
           byAll == IF include_tag_ids # <<>>
                      THEN {r \in byTag : LinkRows(cat, r.id, Range(include_tag_ids))
                                            = Len(include_tag_ids)}
                      ELSE byTag
       IN NotExcluded(cat, byAll, in.exclude_tags)

\* The tag ids of the joins export_execute adds to its statement, lines
\* 655-664: one for tag and one for each include tag found.
JoinedTagIds(cat, in) ==
  (IF in.tag # "" /\ TagsNamed(cat, in.tag) # {} THEN <<TagNamed(cat, in.tag).id>> ELSE <<>>)
  \o FoundTagIds(cat, StrippedNames(in.include_tags))

\* What a statement that joins ImageTagLink more than once, each time under
\* the table's own name, gives: the database refuses it ("ambiguous column
\* name"), or the joins are one join and every condition is on its row.
JoinOutcomes == {"refused", "one_join"}

\* export_execute, lines 638-675: matching_images, unless an exception
\* reaches line 711.
ExecuteSelection(cat, root, in, outcome) ==
  IF root = NoRoot THEN [ok |-> FALSE, images |-> {}]
  ELSE IF in.image_ids # <<>> THEN [ok |-> TRUE, images |-> SelectedByIds(cat, in.image_ids)]
  ELSE LET byQ == MatchingQ(cat, in.q)
           joined == JoinedTagIds(cat, in)
           byJoins == {r \in byQ : \A t \in Range(joined) : LinkExists(cat, r.id, t)}
       IN IF Len(joined) >= 2 /\ outcome = "refused"
            THEN [ok |-> FALSE, images |-> {}]
          ELSE IF Len(joined) >= 2 /\ Cardinality(Range(joined)) >= 2
            THEN [ok |-> TRUE, images |-> {}]
          ELSE [ok |-> TRUE, images |-> NotExcluded(cat, byJoins, in.exclude_tags)]

IdsOf(rows) == {r.id : r \in rows}

\* The filter inputs of the export form.
ExportInputs ==
  [q : {""}, tag : {"", "A B"},
   include_tags : {<<>>, <<"SFW">>, <<"A B", " ", "SFW">>},
   exclude_tags : {<<>>, <<"SFW">>},
   image_ids : {<<>>}]
  \cup [q : {"jpg", "x"}, tag : {""}, include_tags : {<<>>}, exclude_tags : {<<>>},
        image_ids : {<<>>}]
  \cup [q : {""}, tag : {"A B"}, include_tags : {<<>>}, exclude_tags : {<<>>},
        image_ids : {<<"1", "x">>}]

Exported(name, in, answer, ok, selected, copied) ==
  /\ pc = "idle" /\ nUserOps < MaxServeOps
  /\ nUserOps' = nUserOps + 1
  /\ route' = [NoRoute EXCEPT !.name = name, !.args = <<in, selected, copied>>,
                              !.answer = answer, !.met = ok]
  /\ scan' = NoScan
  /\ UNCHANGED <<fs, thumbDirs, db, settings, sess, pc, workers, nScans, nFsOps>>

\* export_preview(q, tag, include_tags, exclude_tags, image_ids)
export_preview(in) ==
  Exported("export_preview", in, 200, TRUE, IdsOf(PreviewSelection(db, in)), {})

\* export_execute(destination, q, tag, include_tags, exclude_tags,
\* image_ids): of the selected images those whose file exists are copied to
\* the destination, a folder outside the vault; the ids of the copies are
\* kept in the route.
export_execute(in, outcome) ==
  LET sel == ExecuteSelection(db, settings.root_dir, in, outcome)
  IN Exported("export_execute", in, 303, sel.ok, IdsOf(sel.images),
              {r.id : r \in {x \in sel.images : Exists(fs, x.path)}})

ExportScan == nScans < MaxRouteScans /\ scan_route(Root, FALSE, TRUE, FALSE)

NextExport ==
  \/ ExportScan
  \/ \E file \in Files : ScanVisit(file)
  \/ ScanTag
  \/ ScanFinish
  \/ \E p \in Files : DeleteFile(p)
  \/ \E i \in ImageIds, name \in {"A B", "SFW"} : assign_tag(i, name, 0)
  \/ \E in \in ExportInputs : export_preview(in)
  \/ \E in \in ExportInputs, outcome \in JoinOutcomes : export_execute(in, outcome)

SpecExport == InitTags /\ [][NextExport]_vars

\* C30. Export preview/execute agreement: for the same filter inputs and
\* the same catalog, the images export_execute selects for copying are the
\* images export_preview shows, also when include_tags names two or more
\* tags.
C30_PreviewExecuteAgree ==
  route.name = "export_execute" =>
     route.args[2] = IdsOf(PreviewSelection(db, route.args[1]))

====
